---------------------------- MODULE Spec2Model ----------------------------
(***************************************************************************)
(* Model of the query gateway of the crypto onboarding chatbot: the usage  *)
(* tracker, the privacy filter, the conversation memory, the LLM router    *)
(* and the chat handler that sequences them.                               *)
(*                                                                         *)
(* Conventions.                                                            *)
(*  - A Python dict is a function whose DOMAIN is the set of its keys.     *)
(*  - A Python str is a string; s[i] is the one-character string CharAt.   *)
(*  - A datetime is an integer: days in the usage tracker, minutes in the  *)
(*    conversation memory; no comparison mixes the two.                    *)
(*  - Money is kept in cents.                                              *)
(***************************************************************************)
EXTENDS Integers, Sequences, FiniteSets, TLC

VARIABLES
    now,            \* the wall clock (datetime.utcnow())
    user_usage,     \* UsageTracker.user_usage : user_id -> usage record
    usage_ret,      \* user_id -> what the last track_query call returned
    period_calls,   \* history: track_query calls per user since the period began
    period_admits,  \* history: of those, the calls that returned True
    period_free,    \* history: the user's tier was Free for the whole period
    thr,            \* request handler threads inside track_query (SpecRace)
    available,      \* LLMManager.providers_config[p]['available']
    fallback_count, \* LLMManager.query_stats['fallback_count']
    rt,             \* the query_with_routing call in progress, and its outcome
    pii_text,       \* a text handed to PIIDetector.redact
    pii_out,        \* what redact returned for it, then for its own output
    mnow,           \* the wall clock of the conversation memory, in minutes
    conversations,  \* ConversationMemory.conversations : user_id -> session
    context_ret,    \* what the get_context call that has just returned gave
    appended,       \* history: the messages added to a user's session so far
    user_consents,  \* PrivacyCompliance.user_consents : user_id -> consent record
    analytics,      \* the Analytics instance
    req,            \* the /api/chat request being handled, and its outcome
    served,         \* history: the /api/chat requests received so far
    granted,        \* history: when the user's latest grant, not revoked or deleted since, was
    ret             \* the read operation that has just returned, and its result

vars == <<now, user_usage, usage_ret, period_calls, period_admits, period_free, thr,
          available, fallback_count, rt, pii_text, pii_out,
          mnow, conversations, context_ret, appended,
          user_consents, analytics, req, served, granted, ret>>

usageVars == <<user_usage, usage_ret, period_calls, period_admits, period_free>>

routerVars == <<available, fallback_count, rt>>

redactVars == <<pii_text, pii_out>>

\* the variables of the components the tracker and the router do not touch
memoryVars == <<mnow, conversations, context_ret, appended>>

chatVars == <<user_consents, analytics, req, served, granted>>

appVars == <<redactVars, memoryVars, chatVars>>

-----------------------------------------------------------------------------
(* Bounds of the model *)

\* The clock stops here.
MaxNow == 32
\* One-day clock steps taken in a row.
MaxDaySteps == 1
\* log_interaction calls modelled in a run of concurrent handlers.
MaxLogs == 2
\* track_query calls modelled per user from the start of a window of counts.
MaxCalls == 4
\* Calls of select_provider that end in its fallback loop.
MaxRoutes == 2
\* Pieces a text handed to redact is put together from.
MaxTokens == 3
\* Times redact is applied to a text and its outputs.
MaxPasses == 2
\* add_message calls modelled per session.
MaxAppends == 3
\* /api/chat requests modelled in a run.
MaxRequests == 1
\* The clock of the conversation memory stops here.
MaxMinutes == 2
\* Pieces a response handed to validate is put together from.
MaxPhrases == 2
\* Pieces of TriggerPieces the scored queries are put together from.
MaxTriggerPieces == 4
\* The clock of the consent table stops here.
MaxConsentNow == 366

Users == {"u1", "u2"}

-----------------------------------------------------------------------------
(* Usage tracker: src/backend/src/usage_tracker.py *)

FreeQuota == 100
ProQuota == 10000
\* 'unlimited' in TIER_CONFIGS
Unlimited == -1
\* overage_per_query of the Pro tier, 0.05, in cents
ProOverageCents == 5
ProPriceMonthly == 299
EnterprisePriceMonthly == 1999
\* timedelta(days=30)
PeriodDays == 30

Tiers == {"free", "pro", "enterprise"}

TIER_CONFIGS ==
    [t \in Tiers |->
        CASE t = "free" -> [queries_per_month |-> FreeQuota, price_monthly |-> 0,
                            overage_per_query |-> 0]
          [] t = "pro" -> [queries_per_month |-> ProQuota,
                           price_monthly |-> ProPriceMonthly,
                           overage_per_query |-> ProOverageCents]
          [] t = "enterprise" -> [queries_per_month |-> Unlimited,
                                  price_monthly |-> EnterprisePriceMonthly,
                                  overage_per_query |-> 0]]

\* The record track_query and upgrade_tier store for a new user.
NewUsage(tier, t) ==
    [tier |-> tier, queries_this_month |-> 0, total_cost |-> 0, month_start |-> t]

\* The reset with the comparison >= : the period ends a tick early.
MonthRollover_AtPeriodLength(usage, t) ==
    IF t - usage.month_start >= PeriodDays
    THEN [usage EXCEPT !.queries_this_month = 0, !.total_cost = 0, !.month_start = t]
    ELSE usage

\* "Check if new month started": the lazy reset of track_query.
MonthRollover(usage, t) ==
    IF t - usage.month_start > PeriodDays
    THEN [usage EXCEPT !.queries_this_month = 0, !.total_cost = 0, !.month_start = t]
    ELSE usage

\* The comparison that lets a query through to "Track query".
UnderLimit_OffByOne(usage) ==
    LET query_limit == TIER_CONFIGS[usage.tier].queries_per_month
    IN  ~(query_limit # Unlimited /\ usage.queries_this_month > query_limit)

UnderLimit(usage) ==
    LET query_limit == TIER_CONFIGS[usage.tier].queries_per_month
    IN  ~(query_limit # Unlimited /\ usage.queries_this_month >= query_limit)

\* track_query whose "Track query" lines let the query through and do not
\* count it.
track_query_AdmitUncounted(uu, user_id, cost, t) ==
    LET uu1 == IF user_id \notin DOMAIN uu
               THEN uu @@ (user_id :> NewUsage("free", t))
               ELSE uu
        usage == MonthRollover(uu1[user_id], t)
        tier_config == TIER_CONFIGS[usage.tier]
    IN  IF ~UnderLimit(usage)
        THEN IF usage.tier = "pro"
             THEN [usage |-> [uu1 EXCEPT ![user_id] =
                                [usage EXCEPT !.queries_this_month = @ + 1,
                                              !.total_cost = @ + tier_config.overage_per_query]],
                   allowed |-> TRUE]
             ELSE [usage |-> [uu1 EXCEPT ![user_id] = usage], allowed |-> FALSE]
        ELSE [usage |-> [uu1 EXCEPT ![user_id] = [usage EXCEPT !.total_cost = @ + cost]],
              allowed |-> TRUE]

\* track_query whose overage branch charges the query and does not count it.
track_query_OverageUncounted(uu, user_id, cost, t) ==
    LET uu1 == IF user_id \notin DOMAIN uu
               THEN uu @@ (user_id :> NewUsage("free", t))
               ELSE uu
        usage == MonthRollover(uu1[user_id], t)
        tier_config == TIER_CONFIGS[usage.tier]
    IN  IF ~UnderLimit(usage)
        THEN IF usage.tier = "pro"
             THEN [usage |-> [uu1 EXCEPT ![user_id] =
                                [usage EXCEPT !.total_cost = @ + tier_config.overage_per_query]],
                   allowed |-> TRUE]
             ELSE [usage |-> [uu1 EXCEPT ![user_id] = usage], allowed |-> FALSE]
        ELSE [usage |-> [uu1 EXCEPT ![user_id] =
                           [usage EXCEPT !.queries_this_month = @ + 1,
                                         !.total_cost = @ + cost]],
              allowed |-> TRUE]

\* track_query(user_id, cost) called at time t on the table uu: the new table
\* and the value returned.
track_query(uu, user_id, cost, t) ==
    LET uu1 == IF user_id \notin DOMAIN uu
               THEN uu @@ (user_id :> NewUsage("free", t))
               ELSE uu
        usage == MonthRollover(uu1[user_id], t)
        tier_config == TIER_CONFIGS[usage.tier]
    IN  IF ~UnderLimit(usage)
        THEN IF usage.tier = "pro"
             THEN [usage |-> [uu1 EXCEPT ![user_id] =
                                [usage EXCEPT !.queries_this_month = @ + 1,
                                              !.total_cost = @ + tier_config.overage_per_query]],
                   allowed |-> TRUE]
             ELSE [usage |-> [uu1 EXCEPT ![user_id] = usage], allowed |-> FALSE]
        ELSE [usage |-> [uu1 EXCEPT ![user_id] =
                           [usage EXCEPT !.queries_this_month = @ + 1,
                                         !.total_cost = @ + cost]],
              allowed |-> TRUE]

\* Every upgrade stores a new record.
upgrade_tier_NewRecord(uu, user_id, new_tier, t) ==
    [u \in DOMAIN uu \cup {user_id} |-> IF u = user_id THEN NewUsage(new_tier, t) ELSE uu[u]]

\* upgrade_tier(user_id, new_tier) called at time t.  'upgraded_at', which is
\* written here and read nowhere, is left out, as is 'last_query'.
upgrade_tier(uu, user_id, new_tier, t) ==
    IF user_id \notin DOMAIN uu
    THEN uu @@ (user_id :> NewUsage(new_tier, t))
    ELSE [uu EXCEPT ![user_id].tier = new_tier]

\* Money is in cents: a price of TIER_CONFIGS is in dollars.
CentsPerDollar == 100

\* calculate_bill(user_id): the bill, or the exception raised.  For a tier
\* whose queries_per_month is 'unlimited', the subtraction of line 226 is an
\* int minus a str, a TypeError.  round(x, 2) of an amount that is a whole
\* number of cents is that amount.  'period', a text of month_start, is left
\* out.
calculate_bill(uu, user_id) ==
    IF user_id \notin DOMAIN uu
    THEN [raised |-> "",
          bill |-> [tier |-> "free", base_price |-> 0, overage_charge |-> 0, total |-> 0]]
    ELSE LET usage == uu[user_id]
             tier_config == TIER_CONFIGS[usage.tier]
             base_price == tier_config.price_monthly * CentsPerDollar
             query_limit == tier_config.queries_per_month
             overage_charge ==
                 IF usage.tier = "pro" /\ usage.queries_this_month > query_limit
                 THEN (usage.queries_this_month - query_limit) * tier_config.overage_per_query
                 ELSE 0
             overage_queries ==
                 IF usage.queries_this_month - query_limit > 0
                 THEN usage.queries_this_month - query_limit ELSE 0
         IN  IF query_limit = Unlimited
             THEN [raised |-> "TypeError"]
             ELSE [raised |-> "",
                   bill |-> [tier |-> usage.tier, base_price |-> base_price,
                             queries_used |-> usage.queries_this_month,
                             overage_queries |-> overage_queries,
                             overage_charge |-> overage_charge,
                             total |-> base_price + overage_charge]]

-----------------------------------------------------------------------------
(* Strings *)

\* s[i] of a Python str, 1-based here.
CharAt(s, i) == SubSeq(s, i, i)

\* p in s
Contains(s, p) ==
    \E i \in 1..(Len(s) - Len(p) + 1) : SubSeq(s, i, i + Len(p) - 1) = p

\* s.count(c) for a one-character c
CountChar(s, c) == Cardinality({i \in 1..Len(s) : CharAt(s, i) = c})

UpperLetters == "ABCDEFGHIJKLMNOPQRSTUVWXYZ"
LowerLetters == "abcdefghijklmnopqrstuvwxyz"

\* the lowercase letter of each uppercase letter
LowerMap ==
    [c \in {CharAt(UpperLetters, i) : i \in 1..Len(UpperLetters)} |->
        CharAt(LowerLetters, CHOOSE i \in 1..Len(UpperLetters) : CharAt(UpperLetters, i) = c)]

LowerChar(c) == IF c \in DOMAIN LowerMap THEN LowerMap[c] ELSE c

\* s[i..j] in lowercase, put together from its two halves.
RECURSIVE LowerFrom(_, _, _)
LowerFrom(s, i, j) ==
    IF i > j THEN ""
    ELSE IF i = j THEN LowerChar(CharAt(s, i))
    ELSE LET mid == (i + j) \div 2
         IN  LowerFrom(s, i, mid) \o LowerFrom(s, mid + 1, j)

\* s.lower()
Lower(s) == LowerFrom(s, 1, Len(s))

-----------------------------------------------------------------------------
(* PII detector: src/backend/src/privacy_compliance.py.  A compiled pattern *)
(* is a sequence of alternatives tried in order; an alternative is a        *)
(* sequence of items; an item is \b or a character class repeated between   *)
(* min and max times, greedily, giving characters back when the rest of the *)
(* pattern fails (the matching order of Python's re).                       *)

Chars(s) == {CharAt(s, i) : i \in 1..Len(s)}

Digits == Chars("0123456789")
Letters == Chars(UpperLetters) \cup Chars(LowerLetters)
HexDigits == Digits \cup Chars("abcdefABCDEF")
\* \w
WordChars == Letters \cup Digits \cup {"_"}
\* \s
Whitespace == {" ", "\t", "\n", "\r", "\f"}

IsWordAt(s, i) == IF i >= 1 /\ i <= Len(s) THEN CharAt(s, i) \in WordChars ELSE FALSE

\* \b between s[i-1] and s[i]
WordBoundary(s, i) == IsWordAt(s, i - 1) # IsWordAt(s, i)

\* the max of + and of {2,}
NoMax == -1

Boundary == [boundary |-> TRUE, cls |-> {}, min |-> 0, max |-> 0]
Rep(cls, min, max) == [boundary |-> FALSE, cls |-> cls, min |-> min, max |-> max]
One(c) == Rep({c}, 1, 1)
Opt(cls) == Rep(cls, 0, 1)

EmailPattern ==
    << <<Boundary, Rep(Letters \cup Digits \cup Chars("._%+-"), 1, NoMax), One("@"),
         Rep(Letters \cup Digits \cup Chars(".-"), 1, NoMax), One("."),
         Rep(Letters \cup {"|"}, 2, NoMax), Boundary>> >>

PhoneCore ==
    <<Opt({"("}), Rep(Digits, 3, 3), Opt({")"}), Opt(Chars("-.")), Rep(Digits, 3, 3),
      Opt(Chars("-.")), Rep(Digits, 4, 4), Boundary>>

\* (?:\+?1[-.]?)? is tried with the group first, then without it
PhonePattern ==
    << <<Boundary, Opt({"+"}), One("1"), Opt(Chars("-."))>> \o PhoneCore,
       <<Boundary>> \o PhoneCore >>

CryptoAddressPattern ==
    << <<Boundary, One("0"), One("x"), Rep(HexDigits, 40, 40), Boundary>> >>

CreditCardPattern ==
    << <<Boundary, Rep(Digits, 4, 4), Opt({"-"} \cup Whitespace), Rep(Digits, 4, 4),
         Opt({"-"} \cup Whitespace), Rep(Digits, 4, 4), Opt({"-"} \cup Whitespace),
         Rep(Digits, 4, 4), Boundary>> >>

SsnPattern ==
    << <<Boundary, Rep(Digits, 3, 3), One("-"), Rep(Digits, 2, 2), One("-"),
         Rep(Digits, 4, 4), Boundary>> >>

\* PATTERNS, in the order of the dict
PIITypes == <<"email", "phone", "crypto_address", "credit_card", "ssn">>

PATTERNS ==
    [email |-> EmailPattern, phone |-> PhonePattern, crypto_address |-> CryptoAddressPattern,
     credit_card |-> CreditCardPattern, ssn |-> SsnPattern]

\* the markers of redact
Placeholder ==
    [email |-> "[EMAIL REDACTED]", phone |-> "[PHONE REDACTED]",
     crypto_address |-> "[WALLET ADDRESS]", credit_card |-> "[CARD NUMBER REDACTED]",
     ssn |-> "[SSN REDACTED]"]

\* How many characters from s[i] on belong to cls, max at most.
RunLength(s, i, cls, max) ==
    LET left == Len(s) - i + 1
        limit == IF max = NoMax THEN left ELSE IF max < left THEN max ELSE left
        stops == {n \in 0..(limit - 1) : CharAt(s, i + n) \notin cls}
    IN  IF stops = {} THEN limit ELSE CHOOSE n \in stops : \A m \in stops : n <= m

\* The items from the k-th on matched at s[i]: the position after the match, or
\* 0 when there is none.  A repeated class takes the longest run that lets the
\* rest of the items match.
RECURSIVE MatchItems(_, _, _, _)
MatchItems(items, k, s, i) ==
    IF k > Len(items) THEN i
    ELSE IF items[k].boundary
         THEN IF WordBoundary(s, i) THEN MatchItems(items, k + 1, s, i) ELSE 0
    ELSE LET run == RunLength(s, i, items[k].cls, items[k].max)
             counts == {n \in items[k].min..run : MatchItems(items, k + 1, s, i + n) # 0}
         IN  IF counts = {} THEN 0
             ELSE MatchItems(items, k + 1, s,
                             i + (CHOOSE n \in counts : \A m \in counts : m <= n))

RECURSIVE MatchAlternatives(_, _, _, _)
MatchAlternatives(pattern, a, s, i) ==
    IF a > Len(pattern) THEN 0
    ELSE LET e == MatchItems(pattern[a], 1, s, i)
         IN  IF e # 0 THEN e ELSE MatchAlternatives(pattern, a + 1, s, i)

\* pattern.match(s, i)
MatchAt(pattern, s, i) == MatchAlternatives(pattern, 1, s, i)

\* pattern.search(s)
Search(pattern, s) == \E i \in 1..Len(s) : MatchAt(pattern, s, i) # 0

\* The positions from i on at which the pattern matches.
MatchStarts(pattern, s, i) == {j \in i..Len(s) : MatchAt(pattern, s, j) # 0}

Leftmost(starts) == CHOOSE j \in starts : \A k \in starts : j <= k

\* s[i:] with every non-overlapping match replaced, leftmost first.
RECURSIVE SubFrom(_, _, _, _)
SubFrom(pattern, repl, s, i) ==
    LET starts == MatchStarts(pattern, s, i)
    IN  IF starts = {} THEN SubSeq(s, i, Len(s))
        ELSE LET j == Leftmost(starts)
             IN  SubSeq(s, i, j - 1) \o repl \o SubFrom(pattern, repl, s, MatchAt(pattern, s, j))

\* s[i:] with the leftmost match replaced.
FirstFrom(pattern, repl, s, i) ==
    LET starts == MatchStarts(pattern, s, i)
    IN  IF starts = {} THEN SubSeq(s, i, Len(s))
        ELSE LET j == Leftmost(starts)
             IN  SubSeq(s, i, j - 1) \o repl \o SubSeq(s, MatchAt(pattern, s, j), Len(s))

\* Replaces the leftmost match only.
Sub_FirstOnly(pattern, repl, s) == FirstFrom(pattern, repl, s, 1)

\* pattern.sub(repl, s): every non-overlapping match, leftmost first
Sub(pattern, repl, s) == SubFrom(pattern, repl, s, 1)

RECURSIVE RedactFrom(_, _, _)
RedactFrom(redacted, pii_found, k) ==
    IF k > Len(PIITypes) THEN [redacted |-> redacted, pii_found |-> pii_found]
    ELSE LET pii_type == PIITypes[k]
         IN  IF Search(PATTERNS[pii_type], redacted)
             THEN RedactFrom(Sub(PATTERNS[pii_type], Placeholder[pii_type], redacted),
                             TRUE, k + 1)
             ELSE RedactFrom(redacted, pii_found, k + 1)

\* PIIDetector.redact: (redacted_text, pii_found)
redact(text) == RedactFrom(text, FALSE, 1)

\* PIIDetector.detect, as the set of the types found
detect(text) == {PIITypes[k] : k \in {j \in 1..Len(PIITypes) : Search(PATTERNS[PIITypes[j]], text)}}

-----------------------------------------------------------------------------
(* Conversation memory: src/backend/src/conversation_memory.py.  A message  *)
(* is its role and its content; its timestamp and metadata, which no        *)
(* operation reads, are left out.                                           *)

\* ConversationMemory(max_history, ttl_minutes, max_context_tokens)
max_history == 2
ttl_minutes == 1
max_context_tokens == 15

CharsPerToken == 4

ContextHeader == "Previous conversation context (for reference):\n"

Roles == {"user", "assistant"}

RoleLabel(role) == IF role = "user" THEN "User" ELSE "Assistant"

\* sep.join(parts)
RECURSIVE Join(_, _)
Join(parts, sep) ==
    IF parts = <<>> THEN ""
    ELSE IF Len(parts) = 1 THEN parts[1]
    ELSE parts[1] \o sep \o Join(Tail(parts), sep)

\* deque(maxlen).append: a full deque drops its oldest element
DequeAppend_RejectWhenFull(messages, message, maxlen) ==
    IF Len(messages) >= maxlen THEN messages ELSE Append(messages, message)

DequeAppend(messages, message, maxlen) ==
    IF maxlen = 0 THEN messages
    ELSE IF Len(messages) = maxlen THEN Append(Tail(messages), message)
    ELSE Append(messages, message)

NewConversation(t) ==
    [messages |-> <<>>, created_at |-> t, last_active |-> t, message_count |-> 0]

\* add_message: the conversations afterwards
add_message(convs, user_id, role, content, t) ==
    LET known == IF user_id \in DOMAIN convs THEN convs
                 ELSE convs @@ (user_id :> NewConversation(t))
        message == [role |-> role, content |-> content]
    IN  [known EXCEPT ![user_id] =
            [@ EXCEPT !.messages = DequeAppend(@, message, max_history),
                      !.last_active = t,
                      !.message_count = @ + 1]]

Without(convs, user_id) == [u \in DOMAIN convs \ {user_id} |-> convs[u]]

Expired(conversation, t) == t - conversation.last_active > ttl_minutes

\* context[:n], the mistaken end
Suffix_KeepFront(context, n) ==
    IF n >= Len(context) THEN context ELSE SubSeq(context, 1, n)

\* context[-n:]
Suffix(context, n) ==
    IF n = 0 THEN context
    ELSE IF n >= Len(context) THEN context
    ELSE SubSeq(context, Len(context) - n + 1, Len(context))

ContextLines(messages) ==
    [i \in 1..Len(messages) |-> RoleLabel(messages[i].role) \o ": " \o messages[i].content]

Truncate_Never(context, max_chars) == context

\* lines 133-137
Truncate(context, max_chars) ==
    IF Len(context) > max_chars THEN Suffix(context, max_chars) ELSE context

\* get_context: the context returned and the conversations afterwards
get_context(convs, user_id, t) ==
    IF user_id \notin DOMAIN convs
    THEN [context |-> "", conversations |-> convs]
    ELSE IF Expired(convs[user_id], t)
    THEN [context |-> "", conversations |-> Without(convs, user_id)]
    ELSE LET context_parts == <<ContextHeader>> \o ContextLines(convs[user_id].messages)
         IN  [context |-> Truncate(Join(context_parts, "\n"), max_context_tokens * CharsPerToken),
              conversations |-> convs]

\* get_messages
get_messages(convs, user_id) ==
    IF user_id \notin DOMAIN convs THEN <<>> ELSE convs[user_id].messages

\* clear_conversation: whether a session was there, and the conversations afterwards
clear_conversation(convs, user_id) ==
    [cleared |-> user_id \in DOMAIN convs, conversations |-> Without(convs, user_id)]

\* cleanup_expired: the conversations afterwards
cleanup_expired(convs, t) ==
    [u \in {v \in DOMAIN convs : ~Expired(convs[v], t)} |-> convs[u]]

-----------------------------------------------------------------------------
(* Consent: src/backend/src/privacy_compliance.py, class PrivacyCompliance *)

\* timedelta(days=365)
ConsentDays == 365

Regions == {"EU", "US"}

\* grant_consent: the consents afterwards
grant_consent(consents, user_id, purposes, t) ==
    [u \in DOMAIN consents \cup {user_id} |->
        IF u = user_id
        THEN [purposes |-> purposes, granted_at |-> t, expires_at |-> t + ConsentDays]
        ELSE consents[u]]

\* has_consent with the comparison >= : the record counts as expired at
\* expires_at already.
has_consent_ExpiredAtExpiry(consents, user_id, t) ==
    IF user_id \notin DOMAIN consents
    THEN [result |-> FALSE, user_consents |-> consents]
    ELSE IF t >= consents[user_id].expires_at
    THEN [result |-> FALSE,
          user_consents |-> [u \in DOMAIN consents \ {user_id} |-> consents[u]]]
    ELSE [result |-> TRUE, user_consents |-> consents]

\* has_consent: the answer, and the consents afterwards (an expired record is
\* deleted)
has_consent(consents, user_id, t) ==
    IF user_id \notin DOMAIN consents
    THEN [result |-> FALSE, user_consents |-> consents]
    ELSE IF t > consents[user_id].expires_at
    THEN [result |-> FALSE,
          user_consents |-> [u \in DOMAIN consents \ {user_id} |-> consents[u]]]
    ELSE [result |-> TRUE, user_consents |-> consents]

\* revoke_consent: whether a record was there, and the consents afterwards
revoke_consent(consents, user_id) ==
    [result |-> user_id \in DOMAIN consents,
     user_consents |-> [u \in DOMAIN consents \ {user_id} |-> consents[u]]]

\* The messages sent to /api/chat: a query, a query with PII in it, and a blank
\* one.
ChatMessages ==
    {"What is Bitcoin?", "Mail a@b.co how staking works", "  "}

\* redact of each of these messages, computed once.
RedactedMessages == [m \in ChatMessages |-> redact(m)]

\* self.pii_detector.redact(query)
Redacted(query) ==
    IF query \in DOMAIN RedactedMessages THEN RedactedMessages[query] ELSE redact(query)

\* process_query: the result dict, and the consents afterwards.  has_consent
\* is called for region 'EU' only.
process_query(consents, user_id, query, region, t) ==
    LET r == Redacted(query)
        hc == IF region = "EU" THEN has_consent(consents, user_id, t)
              ELSE [result |-> TRUE, user_consents |-> consents]
    IN  [cleaned_query |-> r.redacted,
         pii_detected |-> r.pii_found,
         region |-> region,
         requires_consent |-> region = "EU",
         consent_required |-> IF region = "EU" THEN ~hc.result ELSE FALSE,
         user_consents |-> hc.user_consents]

\* user_id[:8]
Prefix8(user_id) == SubSeq(user_id, 1, IF Len(user_id) < 8 THEN Len(user_id) ELSE 8)

\* datetime.isoformat(): the text of a datetime, not the datetime.
isoformat(t) == <<"isoformat", t>>

\* The empty dict.
EmptyDict == [k \in {} |-> 0]

\* export_user_data: the export dict; 'data' has the key 'consent' when the
\* user is in user_consents, whatever the record's expires_at.
export_user_data(consents, user_id, t) ==
    [user_id |-> Prefix8(user_id),
     exported_at |-> isoformat(t),
     data |-> IF user_id \in DOMAIN consents
              THEN [consent |-> [purposes |-> consents[user_id].purposes,
                                 granted_at |-> isoformat(consents[user_id].granted_at),
                                 expires_at |-> isoformat(consents[user_id].expires_at)]]
              ELSE EmptyDict]

\* delete_user_data: the deletion report, and the consents afterwards.
delete_user_data(consents, user_id, t) ==
    [report |-> [user_id |-> Prefix8(user_id),
                 deleted_at |-> isoformat(t),
                 items_deleted |-> [consent_records |-> IF user_id \in DOMAIN consents
                                                        THEN 1 ELSE 0,
                                    conversations |-> 0, analytics |-> 0, usage_data |-> 0],
                 status |-> "completed"],
     user_consents |-> [u \in DOMAIN consents \ {user_id} |-> consents[u]]]

-----------------------------------------------------------------------------
(* Response validator: src/backend/src/response_validator.py *)

dangerous_phrases ==
    <<"guaranteed returns", "guaranteed profit", "no risk", "risk-free", "definitely safe",
      "can't lose", "cannot lose", "100% safe", "zero risk", "free money", "get rich quick">>

disclaimer_triggers ==
    <<"invest", "trading", "profit", "returns", "gains", "financial", "money", "price", "value">>

\* _tone_down_response.replacements, in the order of the dict
replacements ==
    << <<"guaranteed", "potentially possible">>, <<"definitely", "possibly">>,
       <<"always", "often">>, <<"never", "rarely">>, <<"100%", "high">>,
       <<"risk-free", "lower risk">>, <<"no risk", "reduced risk">>,
       <<"can't lose", "lower risk of loss">>, <<"cannot lose", "lower risk of loss">> >>

\* The text _add_disclaimer appends; its leading warning sign is written [!].
Disclaimer ==
    "\n\n[!] **Disclaimer:** This information is for educational purposes only " \o
    "and should not be considered financial advice. Always do your own research " \o
    "and consult with a qualified financial advisor before making investment decisions."

\* The phrases of the list that occur in the lowercased text, in list order.
RECURSIVE PhrasesIn(_, _, _)
PhrasesIn(phrases, text_lower, k) ==
    IF k > Len(phrases) THEN <<>>
    ELSE IF Contains(text_lower, phrases[k])
         THEN <<phrases[k]>> \o PhrasesIn(phrases, text_lower, k + 1)
    ELSE PhrasesIn(phrases, text_lower, k + 1)

\* The phrases looked for in the response as it is written.
check_dangerous_content_CaseSensitive(response) ==
    LET found == PhrasesIn(dangerous_phrases, response, 1)
    IN  [i \in 1..Len(found) |-> "dangerous_claim: " \o found[i]]

\* _check_dangerous_content
check_dangerous_content(response) ==
    LET found == PhrasesIn(dangerous_phrases, Lower(response), 1)
    IN  [i \in 1..Len(found) |-> "dangerous_claim: " \o found[i]]

\* _needs_disclaimer
needs_disclaimer(response) == PhrasesIn(disclaimer_triggers, Lower(response), 1) # <<>>

\* _add_disclaimer
add_disclaimer(response) == response \o Disclaimer

\* re.compile(re.escape(original), re.IGNORECASE).sub(replacement, s)
RECURSIVE ReplaceFrom(_, _, _, _, _)
ReplaceFrom(s, s_lower, original, replacement, i) ==
    LET starts == {j \in i..(Len(s) - Len(original) + 1) :
                      SubSeq(s_lower, j, j + Len(original) - 1) = original}
    IN  IF starts = {} THEN SubSeq(s, i, Len(s))
        ELSE LET j == Leftmost(starts)
             IN  SubSeq(s, i, j - 1) \o replacement \o
                 ReplaceFrom(s, s_lower, original, replacement, j + Len(original))

ReplaceIgnoreCase(s, original, replacement) ==
    ReplaceFrom(s, Lower(s), Lower(original), replacement, 1)

RECURSIVE ToneDownFrom(_, _)
ToneDownFrom(modified, k) ==
    IF k > Len(replacements) THEN modified
    ELSE ToneDownFrom(ReplaceIgnoreCase(modified, replacements[k][1], replacements[k][2]), k + 1)

\* _tone_down_response
tone_down_response(response) == ToneDownFrom(response, 1)

\* validate(...)['modified_response'], lines 88-105
modified_response(response) ==
    LET toned == IF check_dangerous_content(response) # <<>>
                 THEN tone_down_response(response) ELSE response
    IN  IF needs_disclaimer(response) THEN add_disclaimer(toned) ELSE toned

financial_advice_phrases ==
    <<"you should invest", "i recommend investing", "buy this token", "sell your",
      "you should buy", "you should sell">>

\* _check_financial_advice
check_financial_advice(response) ==
    LET found == PhrasesIn(financial_advice_phrases, Lower(response), 1)
    IN  [i \in 1..Len(found) |-> "financial_advice: " \o found[i]]

\* _contains_contradictions.contradictory_pairs
contradictory_pairs ==
    << << <<"always", "never">>, <<"sometimes", "occasionally">> >>,
       << <<"safe", "secure">>, <<"risky", "dangerous", "unsafe">> >>,
       << <<"recommended", "should">>, <<"not recommended", "should not">> >>,
       << <<"increase", "gain">>, <<"decrease", "loss">> >> >>

\* _contains_contradictions
contains_contradictions(response) ==
    \E k \in DOMAIN contradictory_pairs :
        /\ PhrasesIn(contradictory_pairs[k][1], Lower(response), 1) # <<>>
        /\ PhrasesIn(contradictory_pairs[k][2], Lower(response), 1) # <<>>

\* validate(response, query, source_documents) called with no source document,
\* so that the citation check is skipped (line 115).  confidence_score is kept
\* in tenths.  _assess_quality multiplies 1.0 by at most 0.7 * 0.8 (a text
\* cannot be shorter than 50 and longer than 300 characters), so quality_score
\* is never below 0.5 and 'low_quality_response' is never appended; the score
\* itself is left out.
validate(response) ==
    LET dangerous_found == check_dangerous_content(response)
        advice_found == check_financial_advice(response)
        disclaimer == needs_disclaimer(response)
        contradictions == contains_contradictions(response)
    IN  [original_response |-> response,
         modified_response |-> modified_response(response),
         is_safe |-> dangerous_found = <<>>,
         needs_disclaimer |-> advice_found # <<>> \/ disclaimer,
         confidence_score |-> IF contradictions THEN 7 ELSE 10,
         warnings |-> dangerous_found
                      \o (IF advice_found # <<>> THEN <<"contains_financial_advice">> ELSE <<>>)
                      \o (IF contradictions THEN <<"potential_contradictions">> ELSE <<>>),
         modifications |-> (IF dangerous_found # <<>> THEN <<"toned_down_dangerous_claims">>
                            ELSE <<>>)
                           \o (IF disclaimer THEN <<"added_disclaimer">> ELSE <<>>)]

-----------------------------------------------------------------------------
(* Analytics: src/backend/src/analytics.py.  Times and costs are left out. *)

\* classify_query.categories, in the order of the dict
categories ==
    << <<"staking", <<"stake", "staking", "validator", "delegate", "unstake">> >>,
       <<"bridging", <<"bridge", "cross-chain", "transfer", "multichain">> >>,
       <<"wallet", <<"wallet", "metamask", "ledger", "seed phrase", "private key">> >>,
       <<"defi", <<"defi", "liquidity", "pool", "yield", "farm", "lend", "borrow">> >>,
       <<"nft", <<"nft", "token", "mint", "opensea", "collection">> >>,
       <<"trading", <<"trade", "swap", "exchange", "buy", "sell", "dex">> >>,
       <<"security", <<"security", "safe", "risk", "scam", "audit", "hack">> >>,
       <<"gas", <<"gas", "fee", "transaction cost", "gwei">> >>,
       <<"general", <<>> >> >>

RECURSIVE ClassifyFrom(_, _)
ClassifyFrom(query_lower, k) ==
    IF k > Len(categories) THEN "general"
    ELSE IF PhrasesIn(categories[k][2], query_lower, 1) # <<>> THEN categories[k][1]
    ELSE ClassifyFrom(query_lower, k + 1)

\* classify_query
classify_query(query) == ClassifyFrom(Lower(query), 1)

\* hashlib.sha256(query.encode()).hexdigest()[:16]: a digest, taken to be
\* different for different queries
query_hash(query) == <<"sha256", query>>

\* Analytics.__init__
NewAnalytics ==
    [interactions |-> <<>>,
     metrics |-> [total_queries |-> 0, successful_queries |-> 0, failed_queries |-> 0],
     query_categories |-> [c \in {} |-> 0],
     query_cache |-> [h \in {} |-> 0],
     user_sessions |-> [u \in {} |-> 0]]

\* d[k] += 1 of a defaultdict(int), or of a dict whose missing key is first set to 0
Bump(d, k) == [x \in DOMAIN d \cup {k} |-> IF x = k THEN (IF k \in DOMAIN d THEN d[k] ELSE 0) + 1
                                           ELSE d[x]]

\* log_interaction: the analytics afterwards.  query_cache keeps the hit_count
\* of a digest, user_sessions the query_count of a user.
log_interaction(an, user_id, query, response, provider, status) ==
    LET category == classify_query(query)
        interaction == [user_id |-> user_id, query_hash |-> query_hash(query),
                        query_length |-> Len(query), query_category |-> category,
                        response_length |-> Len(response), provider |-> provider,
                        status |-> status]
    IN  [interactions |-> Append(an.interactions, interaction),
         metrics |-> [total_queries |-> an.metrics.total_queries + 1,
                      successful_queries |-> an.metrics.successful_queries
                                             + (IF status = "success" THEN 1 ELSE 0),
                      failed_queries |-> an.metrics.failed_queries
                                         + (IF status = "success" THEN 0 ELSE 1)],
         query_categories |-> Bump(an.query_categories, category),
         query_cache |-> Bump(an.query_cache, query_hash(query)),
         user_sessions |-> Bump(an.user_sessions, user_id)]

-----------------------------------------------------------------------------
(* LLM router: src/backend/src/llm_manager.py *)

\* providers_config, in the order of the dict
ProviderOrder == <<"gemini", "perplexity", "openai">>
Providers == {ProviderOrder[i] : i \in DOMAIN ProviderOrder}

\* providers_config without 'available'; cost_per_1m_tokens is in cents.
providers_config ==
    [p \in Providers |->
        CASE p = "gemini" -> [cost_per_1m_tokens |-> 0, quality_score |-> 8, speed_score |-> 9]
          [] p = "perplexity" -> [cost_per_1m_tokens |-> 20, quality_score |-> 8, speed_score |-> 8]
          [] p = "openai" -> [cost_per_1m_tokens |-> 15, quality_score |-> 9, speed_score |-> 9]]

BaseScore == 1
MaxScore == 10
LongQueryLen == 200
MidQueryLen == 100
LowBandMax == 4
MidBandMax == 7

technical_terms ==
    {"smart contract", "defi", "liquidity pool", "impermanent loss",
     "yield farming", "staking rewards", "gas fees", "slippage",
     "bridge", "cross-chain", "validator", "consensus"}

complex_indicators == {"how", "why", "explain", "difference", "compare"}

\* The score without the cap of line 107.
calculate_complexity_score_Uncapped(query) ==
    LET lowered == Lower(query)
        by_length == IF Len(query) > LongQueryLen THEN 2
                     ELSE IF Len(query) > MidQueryLen THEN 1 ELSE 0
        terms == Cardinality({t \in technical_terms : Contains(lowered, t)})
        indicators == Cardinality({w \in complex_indicators : Contains(lowered, w)})
        questions == IF CountChar(query, "?") > 1 THEN 2 ELSE 0
    IN  BaseScore + by_length + terms + indicators + questions

calculate_complexity_score(query) ==
    LET lowered == Lower(query)
        by_length == IF Len(query) > LongQueryLen THEN 2
                     ELSE IF Len(query) > MidQueryLen THEN 1 ELSE 0
        terms == Cardinality({t \in technical_terms : Contains(lowered, t)})
        indicators == Cardinality({w \in complex_indicators : Contains(lowered, w)})
        questions == IF CountChar(query, "?") > 1 THEN 2 ELSE 0
        score == BaseScore + by_length + terms + indicators + questions
    IN  IF score < MaxScore THEN score ELSE MaxScore

\* A query about rollups: 98 characters, the indicators 'explain' and
\* 'difference', no technical term of the list, one question mark.
RollupQuery ==
    "Explain the differences between optimistic and zk rollups, " \o
    "including security and cost trade-offs?"

\* The queries the model sends.
Queries ==
    {"What is Bitcoin?", RollupQuery,
     "How does a bridge work and why are gas fees high?",
     "Explain how and why to compare defi yield farming, slippage and the difference of a bridge?"}

\* The queries that reach query_with_routing.
RoutedQueries == Queries \cup {redact(m).redacted : m \in ChatMessages}

\* calculate_complexity_score of each of them.
QueryScores == [q \in RoutedQueries |-> calculate_complexity_score(q)]

\* The "Fallback to any available provider" loop of select_provider: the first
\* available provider in dict order, "" when there is none.
FirstAvailable(av) ==
    IF \E i \in DOMAIN ProviderOrder : av[ProviderOrder[i]]
    THEN ProviderOrder[CHOOSE i \in DOMAIN ProviderOrder :
                          /\ av[ProviderOrder[i]]
                          /\ \A j \in 1..(i - 1) : ~av[ProviderOrder[j]]]
    ELSE ""

\* select_provider(complexity_score, prefer_free): the provider returned, whether
\* fallback_count was incremented, whether ValueError was raised.
select_provider(complexity_score, prefer_free, av) ==
    IF complexity_score <= LowBandMax /\ prefer_free /\ av["gemini"]
    THEN [provider |-> "gemini", fallback |-> FALSE, raised |-> FALSE]
    ELSE IF complexity_score <= MidBandMax /\ av["perplexity"]
    THEN [provider |-> "perplexity", fallback |-> FALSE, raised |-> FALSE]
    ELSE IF complexity_score <= MidBandMax /\ av["gemini"]
    THEN [provider |-> "gemini", fallback |-> FALSE, raised |-> FALSE]
    ELSE IF av["openai"]
    THEN [provider |-> "openai", fallback |-> FALSE, raised |-> FALSE]
    ELSE IF FirstAvailable(av) # ""
    THEN [provider |-> FirstAvailable(av), fallback |-> TRUE, raised |-> FALSE]
    ELSE [provider |-> "", fallback |-> FALSE, raised |-> TRUE]

\* The fallback_providers list of query_with_routing: the available providers
\* other than the selected one, in dict order.
RECURSIVE FallbackFrom(_, _, _)
FallbackFrom(provider, av, i) ==
    IF i > Len(ProviderOrder) THEN <<>>
    ELSE IF ProviderOrder[i] # provider /\ av[ProviderOrder[i]]
         THEN <<ProviderOrder[i]>> \o FallbackFrom(provider, av, i + 1)
         ELSE FallbackFrom(provider, av, i + 1)

\* The list without the test p != provider: the selected provider is tried
\* again.
fallback_providers_WithSelected(provider, av) == FallbackFrom("", av, 1)

fallback_providers(provider, av) == FallbackFrom(provider, av, 1)

\* What a provider call can fail with (str of the exception).
ErrorKinds == {"timeout", "auth error"}

\* The answers a provider can give.
Answers == {"Staking locks tokens to earn rewards."}

ApologyAnswer ==
    "I apologize, but I'm experiencing technical difficulties. Please try again in a moment."

\* The dict returned when every provider failed (lines 283-288); e is the
\* exception bound by "except Exception as e" of the primary attempt.
AllFailedResult(e) ==
    [answer |-> ApologyAnswer, provider |-> "none", status |-> "error", error |-> e]

SuccessResult(answer, provider, status) ==
    [answer |-> answer, provider |-> provider, status |-> status, error |-> ""]

RouteIdle ==
    [pc |-> "idle", query |-> "", complexity |-> 0, provider |-> "", e |-> "",
     pending |-> <<>>, attempts |-> <<>>, raised |-> "", result |-> SuccessResult("", "", "")]

\* Lines 203-213: score the query and select the provider.  A ValueError of
\* select_provider is raised outside the try block and leaves the call.
RouteBegin(query) ==
    LET complexity == QueryScores[query]
        sel == select_provider(complexity, TRUE, available)
    IN  /\ rt' = IF sel.raised
                 THEN [RouteIdle EXCEPT !.pc = "done", !.query = query,
                                        !.complexity = complexity, !.raised = "ValueError"]
                 ELSE [RouteIdle EXCEPT !.pc = "primary", !.query = query,
                                        !.complexity = complexity, !.provider = sel.provider]
        /\ fallback_count' = fallback_count + (IF sel.fallback THEN 1 ELSE 0)

\* Lines 215-255: the primary provider is called; it answers or fails with e.
RoutePrimary(outcome) ==
    /\ rt.pc = "primary"
    /\ rt' = IF outcome \in Answers
             THEN [rt EXCEPT !.pc = "done",
                             !.attempts = Append(@, [provider |-> rt.provider, error |-> ""]),
                             !.result = SuccessResult(outcome, rt.provider, "success")]
             ELSE LET rest == fallback_providers(rt.provider, available)
                  IN  [rt EXCEPT !.pc = IF rest = <<>> THEN "done" ELSE "fallback",
                                 !.e = outcome,
                                 !.pending = rest,
                                 !.attempts = Append(@, [provider |-> rt.provider, error |-> outcome]),
                                 !.result = IF rest = <<>> THEN AllFailedResult(outcome) ELSE @]

\* Lines 257-288: the next fallback provider is called.
RouteFallback(outcome) ==
    /\ rt.pc = "fallback"
    /\ LET fallback == Head(rt.pending)
           rest == Tail(rt.pending)
       IN  rt' = IF outcome \in Answers
                 THEN [rt EXCEPT !.pc = "done", !.pending = <<>>,
                                 !.attempts = Append(@, [provider |-> fallback, error |-> ""]),
                                 !.result = SuccessResult(outcome, fallback, "success_fallback")]
                 ELSE [rt EXCEPT !.pc = IF rest = <<>> THEN "done" ELSE "fallback",
                                 !.pending = rest,
                                 !.attempts = Append(@, [provider |-> fallback, error |-> outcome]),
                                 !.result = IF rest = <<>> THEN AllFailedResult(rt.e) ELSE @]

InitRouterIdle ==
    /\ available = [p \in Providers |-> TRUE]
    /\ fallback_count = 0
    /\ rt = RouteIdle

\* No text has been handed to the detector.
InitRedactIdle ==
    /\ pii_text = ""
    /\ pii_out = <<>>

NoContext == [user_id |-> "", context |-> "", live |-> FALSE]

\* ConversationMemory.__init__: no session.
InitMemoryEmpty ==
    /\ mnow = 0
    /\ conversations = [u \in {} |-> NewConversation(0)]
    /\ context_ret = NoContext
    /\ appended = [u \in Users |-> <<>>]

NoResult == [response |-> "", status |-> "", provider |-> "", error_details |-> ""]

\* No request is being handled.
NoRequest ==
    [pc |-> "idle", user_id |-> "", region |-> "", message |-> "", admitted |-> FALSE,
     consent_required |-> FALSE, final_query |-> "", context |-> "", retrieved |-> FALSE,
     e |-> "", final_answer |-> "", http |-> 0, result |-> NoResult]

\* The server has started: no consent, no interaction, no request.
InitChatIdle ==
    /\ user_consents = [u \in {} |-> [purposes |-> {}, granted_at |-> 0, expires_at |-> 0]]
    /\ analytics = NewAnalytics
    /\ req = NoRequest
    /\ served = 0
    /\ granted = [u \in Users |-> {}]

InitAppIdle == InitRedactIdle /\ InitMemoryEmpty /\ InitChatIdle

-----------------------------------------------------------------------------
(* The usage tracker driven by sequential calls *)

\* Usage tables the tracker can hold when the model starts: a user never seen,
\* a Free user two queries short of the quota, a Pro user two short of it.
InitCounts == [free |-> FreeQuota - 2, pro |-> ProQuota - 2]

InitUsageRecords ==
    {[NewUsage(t, 0) EXCEPT !.queries_this_month = InitCounts[t]] : t \in {"free", "pro"}}

InitUsageTables ==
    UNION {[S -> InitUsageRecords] : S \in SUBSET Users}

Count(uu, u) == IF u \in DOMAIN uu THEN uu[u].queries_this_month ELSE 0

\* UsageTracker.__init__: no user has a record.
InitUsageEmpty ==
    /\ user_usage = [u \in {} |-> NewUsage("free", 0)]
    /\ usage_ret = [u \in Users |-> "none"]
    /\ period_calls = [u \in Users |-> 0]
    /\ period_admits = [u \in Users |-> 0]
    /\ period_free = [u \in Users |-> TRUE]

InitUsage ==
    /\ user_usage \in InitUsageTables
    /\ usage_ret = [u \in Users |-> "none"]
    /\ period_calls = [u \in Users |-> Count(user_usage, u)]
    /\ period_admits = [u \in Users |-> Count(user_usage, u)]
    /\ period_free = [u \in Users |->
                        u \in DOMAIN user_usage => user_usage[u].tier = "free"]

\* The counts at which calls are modelled: the first MaxCalls of a period and
\* MaxCalls from two below each quota.
CallWindow ==
    UNION {b .. (b + MaxCalls - 1) : b \in {0, FreeQuota - 2, ProQuota - 2}}

\* Whether a track_query call at time t starts a new period for the user.
StartsPeriod(uu, u, t) ==
    IF u \in DOMAIN uu THEN t - uu[u].month_start > PeriodDays ELSE TRUE

\* A track_query(u) call, with the history of the period kept.
TrackQueryStep(u) ==
    LET r == track_query(user_usage, u, 0, now)
        fresh == StartsPeriod(user_usage, u, now)
        calls == IF fresh THEN 0 ELSE period_calls[u]
        admits == IF fresh THEN 0 ELSE period_admits[u]
    IN  /\ user_usage' = r.usage
        /\ usage_ret' = [usage_ret EXCEPT ![u] = IF r.allowed THEN "allowed" ELSE "rejected"]
        /\ period_calls' = [period_calls EXCEPT ![u] = calls + 1]
        /\ period_admits' = [period_admits EXCEPT ![u] = admits + (IF r.allowed THEN 1 ELSE 0)]
        /\ period_free' = [period_free EXCEPT ![u] =
                              IF fresh THEN r.usage[u].tier = "free" ELSE @]

TrackQuery(u) ==
    /\ IF StartsPeriod(user_usage, u, now) THEN TRUE ELSE period_calls[u] \in CallWindow
    /\ TrackQueryStep(u)
    /\ UNCHANGED <<now, ret, thr, routerVars, appVars>>

UpgradeTier(u, tier) ==
    /\ user_usage' = upgrade_tier(user_usage, u, tier, now)
    /\ period_free' = [period_free EXCEPT ![u] =
                          IF u \in DOMAIN user_usage THEN @ /\ tier = "free"
                          ELSE tier = "free"]
    /\ period_calls' = [period_calls EXCEPT ![u] =
                           IF u \in DOMAIN user_usage THEN @ ELSE 0]
    /\ period_admits' = [period_admits EXCEPT ![u] =
                            IF u \in DOMAIN user_usage THEN @ ELSE 0]
    /\ UNCHANGED <<now, ret, usage_ret, thr, routerVars, appVars>>

\* Time passes: a day, or a whole period.
Tick ==
    \E d \in {1, PeriodDays} :
        /\ now + d <= MaxNow
        /\ d = 1 => now % PeriodDays < MaxDaySteps
        /\ now' = now + d
        /\ UNCHANGED <<ret, usageVars, thr, routerVars, appVars>>

NextUsage ==
    \/ \E u \in Users : TrackQuery(u)
    \/ \E u \in Users, tier \in Tiers : UpgradeTier(u, tier)
    \/ Tick

Handlers == {"h1", "h2"}

IdleThread ==
    [pc |-> "idle", user |-> "", seen |-> 0, over |-> FALSE, tmp |-> 0, ret |-> "none"]

\* No read operation has returned yet.
NoCall == [op |-> "none"]

InitThreads == thr = [h \in Handlers |-> IdleThread]

InitSpecUsage ==
    /\ now = 0
    /\ InitUsage
    /\ InitThreads
    /\ ret = NoCall
    /\ InitRouterIdle
    /\ InitAppIdle

SpecUsage == InitSpecUsage /\ [][NextUsage]_vars

-----------------------------------------------------------------------------
(* track_query run by concurrent request handlers.  The handlers of the Flask *)
(* server are threads that share one UsageTracker and take no lock; a thread  *)
(* switch can fall between any two of the steps below.  Every user has a      *)
(* record already, so lines 88-95 do nothing, and the clock stands still.     *)

\* Both users have a record: Free one or two queries short of the quota, or Pro
\* one short of it.
RaceUsageRecords ==
    {[NewUsage("free", 0) EXCEPT !.queries_this_month = FreeQuota - 1],
     [NewUsage("free", 0) EXCEPT !.queries_this_month = FreeQuota - 2],
     [NewUsage("pro", 0) EXCEPT !.queries_this_month = ProQuota - 1]}

InitSpecRace ==
    /\ now = 0
    /\ user_usage \in [Users -> RaceUsageRecords]
    /\ usage_ret = [u \in Users |-> "none"]
    /\ period_calls = [u \in Users |-> Count(user_usage, u)]
    /\ period_admits = [u \in Users |-> Count(user_usage, u)]
    /\ period_free = [u \in Users |-> user_usage[u].tier = "free"]
    /\ InitThreads
    /\ ret = NoCall
    /\ InitRouterIdle
    /\ InitAppIdle

\* A request arrives: the handler enters track_query(u).
RaceCall(h, u) ==
    /\ thr[h].pc = "idle"
    /\ thr' = [thr EXCEPT ![h] = [pc |-> "check", user |-> u,
                                  seen |-> user_usage[u].queries_this_month,
                                  over |-> FALSE, tmp |-> 0, ret |-> "none"]]
    /\ UNCHANGED <<now, ret, usageVars, routerVars, appVars>>

\* Lines 97-119: the rollover test and the limit test; a rejected call returns.
RaceCheck(h) ==
    /\ thr[h].pc = "check"
    /\ LET u == thr[h].user
           usage == MonthRollover(user_usage[u], now)
       IN  /\ user_usage' = [user_usage EXCEPT ![u] = usage]
           /\ thr' = [thr EXCEPT ![h] =
                        IF UnderLimit(usage) THEN [@ EXCEPT !.pc = "load_count"]
                        ELSE IF usage.tier = "pro"
                             THEN [@ EXCEPT !.pc = "load_count", !.over = TRUE]
                        ELSE [@ EXCEPT !.pc = "done", !.ret = "rejected"]]
    /\ UNCHANGED <<now, ret, usage_ret, period_calls, period_admits, period_free, routerVars, appVars>>

\* usage['queries_this_month'] += 1 reads the counter ...
RaceLoadCount(h) ==
    /\ thr[h].pc = "load_count"
    /\ thr' = [thr EXCEPT ![h] = [@ EXCEPT !.pc = "store_count",
                                  !.tmp = user_usage[thr[h].user].queries_this_month]]
    /\ UNCHANGED <<now, ret, usageVars, routerVars, appVars>>

\* ... and writes it back, one higher.
RaceStoreCount(h) ==
    /\ thr[h].pc = "store_count"
    /\ user_usage' = [user_usage EXCEPT ![thr[h].user].queries_this_month = thr[h].tmp + 1]
    /\ thr' = [thr EXCEPT ![h] = [@ EXCEPT !.pc = "load_cost"]]
    /\ UNCHANGED <<now, ret, usage_ret, period_calls, period_admits, period_free, routerVars, appVars>>

\* usage['total_cost'] += ... reads the cost ...
RaceLoadCost(h) ==
    /\ thr[h].pc = "load_cost"
    /\ thr' = [thr EXCEPT ![h] = [@ EXCEPT !.pc = "store_cost",
                                  !.tmp = user_usage[thr[h].user].total_cost]]
    /\ UNCHANGED <<now, ret, usageVars, routerVars, appVars>>

\* ... and writes it back with the overage charge (lines 113-116) or the
\* query's cost, 0 (lines 122-126); the call returns True.
RaceStoreCost(h) ==
    /\ thr[h].pc = "store_cost"
    /\ LET u == thr[h].user
           charge == IF thr[h].over
                     THEN TIER_CONFIGS[user_usage[u].tier].overage_per_query
                     ELSE 0
       IN  user_usage' = [user_usage EXCEPT ![u].total_cost = thr[h].tmp + charge]
    /\ thr' = [thr EXCEPT ![h] = [@ EXCEPT !.pc = "done", !.ret = "allowed"]]
    /\ UNCHANGED <<now, ret, usage_ret, period_calls, period_admits, period_free, routerVars, appVars>>

NextRace ==
    \/ \E h \in Handlers, u \in Users : RaceCall(h, u)
    \/ \E h \in Handlers : RaceCheck(h)
    \/ \E h \in Handlers : RaceLoadCount(h)
    \/ \E h \in Handlers : RaceStoreCount(h)
    \/ \E h \in Handlers : RaceLoadCost(h)
    \/ \E h \in Handlers : RaceStoreCost(h)

SpecRace == InitSpecRace /\ [][NextRace]_vars

-----------------------------------------------------------------------------
(* The router driven by query_with_routing calls *)

\* Any set of API keys may be configured.
InitSpecRouter ==
    /\ now = 0
    /\ InitUsageEmpty
    /\ InitThreads
    /\ ret = NoCall
    /\ InitAppIdle
    /\ available \in [Providers -> BOOLEAN]
    /\ fallback_count = 0
    /\ rt = RouteIdle

RouteCall(query) ==
    /\ rt.pc \in {"idle", "done"}
    /\ fallback_count < MaxRoutes
    /\ RouteBegin(query)
    /\ UNCHANGED <<now, ret, usageVars, thr, available, appVars>>

ProviderReplies(outcome) ==
    /\ RoutePrimary(outcome)
    /\ UNCHANGED <<now, ret, usageVars, thr, available, fallback_count, appVars>>

FallbackReplies(outcome) ==
    /\ RouteFallback(outcome)
    /\ UNCHANGED <<now, ret, usageVars, thr, available, fallback_count, appVars>>

NextRouter ==
    \/ \E q \in Queries : RouteCall(q)
    \/ \E o \in Answers \cup ErrorKinds : ProviderReplies(o)
    \/ \E o \in Answers \cup ErrorKinds : FallbackReplies(o)

SpecRouter == InitSpecRouter /\ [][NextRouter]_vars

-----------------------------------------------------------------------------
(* The detector applied to texts, and again to what it returned *)

\* What the texts are put together from: a match of each pattern, and the
\* characters that decide where a match starts and ends.
PIITokens ==
    {"a@b.co", "|", "+1", "555-123-4567", "123-45-6789", "4111 1111 1111 1111",
     "0x52908400098527886E0F7030069857D2E4169EE7"}

RECURSIVE TextsOf(_)
TextsOf(n) == IF n = 0 THEN {""} ELSE {t \o k : t \in TextsOf(n - 1), k \in PIITokens}

PIITexts == UNION {TextsOf(n) : n \in 0..MaxTokens}

InitSpecRedact ==
    /\ now = 0
    /\ InitUsageEmpty
    /\ InitThreads
    /\ ret = NoCall
    /\ InitRouterIdle
    /\ pii_text \in PIITexts
    /\ pii_out = <<>>
    /\ InitMemoryEmpty
    /\ InitChatIdle

\* redact is called on the text, then on its own output.
Redact ==
    /\ Len(pii_out) < MaxPasses
    /\ pii_out' = Append(pii_out, redact(IF pii_out = <<>> THEN pii_text
                                         ELSE pii_out[Len(pii_out)].redacted))
    /\ UNCHANGED <<now, ret, usageVars, thr, routerVars, pii_text, memoryVars, chatVars>>

NextRedact == Redact

SpecRedact == InitSpecRedact /\ [][NextRedact]_vars

-----------------------------------------------------------------------------
(* The conversation memory driven by calls.  Sessions of different users    *)
(* share nothing but the clock; one user is followed.                       *)

MemoryUsers == {"u1"}

\* n times the character x, put together from two halves.
RECURSIVE Filler(_)
Filler(n) ==
    IF n = 0 THEN ""
    ELSE IF n = 1 THEN "x"
    ELSE Filler(n \div 2) \o Filler(n - n \div 2)

\* Message contents: a short one, one as long as the character budget of the
\* context, and one a character longer.
Contents ==
    {"Hi", Filler(max_context_tokens * CharsPerToken),
     Filler(max_context_tokens * CharsPerToken + 1)}

InitSpecMemory ==
    /\ now = 0
    /\ InitUsageEmpty
    /\ InitThreads
    /\ ret = NoCall
    /\ InitRouterIdle
    /\ InitRedactIdle
    /\ InitMemoryEmpty
    /\ InitChatIdle

AddMessage(u, role, content) ==
    /\ Len(appended[u]) < MaxAppends
    /\ conversations' = add_message(conversations, u, role, content, mnow)
    /\ appended' = [appended EXCEPT ![u] =
                       IF u \in DOMAIN conversations
                       THEN Append(@, [role |-> role, content |-> content])
                       ELSE <<[role |-> role, content |-> content]>>]
    /\ context_ret' = NoContext
    /\ ret' = NoCall
    /\ UNCHANGED <<now, usageVars, thr, routerVars, redactVars, chatVars, mnow>>

GetContext(u) ==
    /\ LET r == get_context(conversations, u, mnow)
       IN  /\ conversations' = r.conversations
           /\ context_ret' = [user_id |-> u, context |-> r.context,
                              live |-> u \in DOMAIN r.conversations]
           /\ appended' = [appended EXCEPT ![u] =
                              IF u \in DOMAIN r.conversations THEN @ ELSE <<>>]
    /\ ret' = NoCall
    /\ UNCHANGED <<now, usageVars, thr, routerVars, redactVars, chatVars, mnow>>

\* app.py, line 292, GET /api/conversation/<user_id>: get_messages is called
\* and returns.
GetMessages(u) ==
    /\ ret' = [op |-> "get_messages", user_id |-> u, result |-> get_messages(conversations, u)]
    /\ context_ret' = NoContext
    /\ UNCHANGED <<now, usageVars, thr, routerVars, redactVars, chatVars, mnow, conversations,
                   appended>>

ClearConversation(u) ==
    /\ conversations' = clear_conversation(conversations, u).conversations
    /\ appended' = [appended EXCEPT ![u] = <<>>]
    /\ context_ret' = NoContext
    /\ ret' = NoCall
    /\ UNCHANGED <<now, usageVars, thr, routerVars, redactVars, chatVars, mnow>>

CleanupExpired ==
    /\ conversations' = cleanup_expired(conversations, mnow)
    /\ appended' = [u \in Users |->
                       IF u \in DOMAIN conversations' THEN appended[u] ELSE <<>>]
    /\ context_ret' = NoContext
    /\ ret' = NoCall
    /\ UNCHANGED <<now, usageVars, thr, routerVars, redactVars, chatVars, mnow>>

\* A minute passes.
MemTick ==
    /\ mnow < MaxMinutes
    /\ mnow' = mnow + 1
    /\ context_ret' = NoContext
    /\ ret' = NoCall
    /\ UNCHANGED <<now, usageVars, thr, routerVars, redactVars, chatVars, conversations, appended>>

NextMemory ==
    \/ \E u \in MemoryUsers, role \in Roles, content \in Contents : AddMessage(u, role, content)
    \/ \E u \in MemoryUsers : GetContext(u)
    \/ \E u \in MemoryUsers : GetMessages(u)
    \/ \E u \in MemoryUsers : ClearConversation(u)
    \/ CleanupExpired
    \/ MemTick

SpecMemory == InitSpecMemory /\ [][NextMemory]_vars

-----------------------------------------------------------------------------
(* The chat handler: src/backend/app.py, chat, and the pipeline it calls,   *)
(* src/backend/src/rag_pipeline.py, CryptoRAGPipeline.query.  Requests are  *)
(* handled one at a time; the clocks stand still while they are.  The       *)
(* source of CryptoRAGPipeline.query lacks the arguments of its first       *)
(* log_interaction call and the return of its except block; both follow the *)
(* written specification of the pipeline (LoggedStatus, FailureResponse).   *)

\* len(user_message) > 1000
MaxMessageLen == 1000

\* The states a request ends in.
Terminal == {"Done", "RejectedByQuota", "RejectedByConsent", "BadRequest"}

RECURSIVE StripLeft(_)
StripLeft(s) ==
    IF s = "" THEN s
    ELSE IF Head(s) \in Whitespace THEN StripLeft(Tail(s)) ELSE s

RECURSIVE StripRight(_)
StripRight(s) ==
    IF s = "" THEN s
    ELSE IF CharAt(s, Len(s)) \in Whitespace THEN StripRight(SubSeq(s, 1, Len(s) - 1)) ELSE s

\* s.strip()
Strip(s) == StripRight(StripLeft(s))

\* What the retriever can do: return documents, or fail.
RetrievalOutcomes == {"documents", "vector store error"}

\* The requests arrive on a day on which consents granted on day 0 have
\* expired.  u1 is a Free user one query short of the quota or at it, u2 has
\* made no query; u2 granted consent on day 0, u1 never.
InitSpec ==
    /\ now = ConsentDays + 1
    /\ \E n \in {FreeQuota - 1, FreeQuota} :
           user_usage = ("u1" :> [NewUsage("free", ConsentDays + 1) EXCEPT
                                      !.queries_this_month = n])
    /\ usage_ret = [u \in Users |-> "none"]
    /\ period_calls = [u \in Users |-> Count(user_usage, u)]
    /\ period_admits = [u \in Users |-> Count(user_usage, u)]
    /\ period_free = [u \in Users |-> TRUE]
    /\ InitThreads
    /\ ret = NoCall
    /\ available \in [Providers -> BOOLEAN]
    /\ fallback_count = 0
    /\ rt = RouteIdle
    /\ InitRedactIdle
    /\ InitMemoryEmpty
    /\ user_consents = grant_consent(<<>>, "u2", {"analytics"}, 0)
    /\ analytics = NewAnalytics
    /\ req = NoRequest
    /\ served = 0
    /\ granted = [u \in Users |-> IF u = "u2" THEN {0} ELSE {}]

\* app.py, lines 132-166: the request is read and validated.
ChatReceive(u, region, message) ==
    /\ req.pc \in {"idle"} \cup Terminal
    /\ served < MaxRequests
    /\ served' = served + 1
    /\ LET user_message == Strip(message)
       IN  req' = IF user_message = "" \/ Len(user_message) > MaxMessageLen
                  THEN [NoRequest EXCEPT !.pc = "BadRequest", !.user_id = u, !.region = region,
                                         !.message = user_message, !.http = 400]
                  ELSE [NoRequest EXCEPT !.pc = "Received", !.user_id = u, !.region = region,
                                         !.message = user_message]
    /\ rt' = RouteIdle
    /\ UNCHANGED <<now, ret, usageVars, thr, available, fallback_count, redactVars, memoryVars,
                   user_consents, analytics, granted>>

\* app.py, lines 168-175: the usage check.
ChatAdmit ==
    /\ req.pc = "Received"
    /\ TrackQueryStep(req.user_id)
    /\ LET allowed == track_query(user_usage, req.user_id, 0, now).allowed
       IN  req' = IF allowed THEN [req EXCEPT !.pc = "Admitted", !.admitted = TRUE]
                  ELSE [req EXCEPT !.pc = "RejectedByQuota", !.http = 429]
    /\ UNCHANGED <<now, ret, thr, routerVars, redactVars, memoryVars, user_consents, analytics, served, granted>>

PrivacyVerdict_Proceeds(privacy_result) == "PrivacyChecked"

\* app.py, lines 182-187: a request that needs consent is answered 403.
PrivacyVerdict(privacy_result) ==
    IF privacy_result.consent_required THEN "RejectedByConsent" ELSE "PrivacyChecked"

\* app.py, lines 177-190: the privacy check.
ChatPrivacy ==
    /\ req.pc = "Admitted"
    /\ \E privacy_result \in {process_query(user_consents, req.user_id, req.message,
                                             req.region, now)} :
       LET verdict == PrivacyVerdict(privacy_result)
       IN  /\ user_consents' = privacy_result.user_consents
           /\ req' = [req EXCEPT !.pc = verdict,
                                 !.consent_required = privacy_result.consent_required,
                                 !.final_query = IF verdict = "PrivacyChecked"
                                                 THEN privacy_result.cleaned_query ELSE @,
                                 !.http = IF verdict = "PrivacyChecked" THEN @ ELSE 403]
    /\ UNCHANGED <<now, ret, usageVars, thr, routerVars, redactVars, memoryVars, analytics, served, granted>>

\* rag_pipeline.py, line 187: the conversation context is read.
ChatContext ==
    /\ req.pc = "PrivacyChecked"
    /\ LET r == get_context(conversations, req.user_id, mnow)
       IN  /\ conversations' = r.conversations
           /\ appended' = [appended EXCEPT ![req.user_id] =
                              IF req.user_id \in DOMAIN r.conversations THEN @ ELSE <<>>]
           /\ context_ret' = [user_id |-> req.user_id, context |-> r.context,
                              live |-> req.user_id \in DOMAIN r.conversations]
           /\ req' = [req EXCEPT !.pc = "ContextLoaded", !.context = r.context]
    /\ UNCHANGED <<now, ret, usageVars, thr, routerVars, redactVars, mnow, user_consents,
                   analytics, served, granted>>

\* rag_pipeline.py, line 190: the documents are retrieved; a failure of the
\* retriever is caught at line 286.
ChatRetrieve(outcome) ==
    /\ req.pc = "ContextLoaded"
    /\ req' = IF outcome = "documents"
              THEN [req EXCEPT !.pc = "Retrieved", !.retrieved = TRUE]
              ELSE [req EXCEPT !.pc = "Failed", !.retrieved = TRUE, !.e = outcome]
    /\ UNCHANGED <<now, ret, usageVars, thr, routerVars, redactVars, memoryVars, user_consents,
                   analytics, served, granted>>

\* rag_pipeline.py, line 216: query_with_routing is entered; its ValueError is
\* caught at line 286.
ChatRoute ==
    /\ req.pc = "Retrieved"
    /\ RouteBegin(req.final_query)
    /\ req' = IF rt'.raised # "" THEN [req EXCEPT !.pc = "Failed", !.e = rt'.raised]
              ELSE [req EXCEPT !.pc = "Routing"]
    /\ UNCHANGED <<now, ret, usageVars, thr, available, redactVars, memoryVars, user_consents,
                   analytics, served, granted>>

\* The primary provider is invoked.
ChatProvider(outcome) ==
    /\ req.pc = "Routing"
    /\ RoutePrimary(outcome)
    /\ req' = IF rt'.pc = "done" THEN [req EXCEPT !.pc = "Answered"] ELSE req
    /\ UNCHANGED <<now, ret, usageVars, thr, available, fallback_count, redactVars, memoryVars,
                   user_consents, analytics, served, granted>>

\* The next fallback provider is invoked.
ChatFallback(outcome) ==
    /\ req.pc = "Routing"
    /\ RouteFallback(outcome)
    /\ req' = IF rt'.pc = "done" THEN [req EXCEPT !.pc = "Answered"] ELSE req
    /\ UNCHANGED <<now, ret, usageVars, thr, available, fallback_count, redactVars, memoryVars,
                   user_consents, analytics, served, granted>>

\* modified_response of each answer query_with_routing can return.
ModifiedResponses == [a \in Answers \cup {ApologyAnswer} |-> modified_response(a)]

\* rag_pipeline.py, lines 223-230: the answer is validated.
ChatValidate ==
    /\ req.pc = "Answered"
    /\ req' = [req EXCEPT !.pc = "Validated",
                          !.final_answer = ModifiedResponses[rt.result.answer]]
    /\ UNCHANGED <<now, ret, usageVars, thr, routerVars, redactVars, memoryVars, user_consents,
                   analytics, served, granted>>

\* The status the interaction of an answered query is logged with.
LoggedStatus(llm_result) == IF llm_result.status = "error" THEN "error" ELSE "success"

\* rag_pipeline.py, line 236: the interaction is logged.
ChatLog ==
    /\ req.pc = "Validated"
    /\ analytics' = log_interaction(analytics, req.user_id, req.final_query, req.final_answer,
                                    rt.result.provider, LoggedStatus(rt.result))
    /\ req' = [req EXCEPT !.pc = "Logged"]
    /\ UNCHANGED <<now, ret, usageVars, thr, routerVars, redactVars, memoryVars, user_consents,
                   served, granted>>

\* rag_pipeline.py, lines 260-269: the dict query returns for an answered query
PipelineResponse(final_answer, llm_result) ==
    [answer |-> final_answer, status |-> "success", provider |-> llm_result.provider,
     error |-> ""]

\* The dict query returns from its except block.
FailureResponse(e) ==
    [answer |-> ApologyAnswer, status |-> "error", provider |-> "none", error |-> e]

\* app.py, lines 203-222: the body of the 200 answer
ChatResult(response) ==
    [response |-> response.answer, status |-> response.status, provider |-> response.provider,
     error_details |-> response.error]

\* rag_pipeline.py, lines 256-284, and app.py, lines 203-553: the exchange is
\* remembered and the answer is sent.
ChatRespond ==
    /\ req.pc = "Logged"
    /\ LET with_user == add_message(conversations, req.user_id, "user", req.final_query, mnow)
           with_both == add_message(with_user, req.user_id, "assistant", req.final_answer, mnow)
           exchange == <<[role |-> "user", content |-> req.final_query],
                         [role |-> "assistant", content |-> req.final_answer]>>
       IN  /\ conversations' = with_both
           /\ appended' = [appended EXCEPT ![req.user_id] =
                              IF req.user_id \in DOMAIN conversations THEN @ \o exchange
                              ELSE exchange]
    /\ context_ret' = NoContext
    /\ req' = [req EXCEPT !.pc = "Done", !.http = 200,
                          !.result = ChatResult(PipelineResponse(req.final_answer, rt.result))]
    /\ UNCHANGED <<now, ret, usageVars, thr, routerVars, redactVars, mnow, user_consents,
                   analytics, served, granted>>

\* rag_pipeline.py, lines 286-301: an exception inside query is logged as a
\* failed interaction and answered.
ChatFail ==
    /\ req.pc = "Failed"
    /\ analytics' = log_interaction(analytics, req.user_id, req.final_query, "Error", "none",
                                    "error")
    /\ req' = [req EXCEPT !.pc = "Done", !.http = 200,
                          !.result = ChatResult(FailureResponse(req.e))]
    /\ UNCHANGED <<now, ret, usageVars, thr, routerVars, redactVars, memoryVars, user_consents,
                   served, granted>>

\* app.py, lines 440-478: POST /api/consent.  A user grants consent before the
\* first request, or after being refused for the lack of it.
GrantConsent(u) ==
    /\ IF req.pc = "idle" THEN TRUE
       ELSE IF req.pc = "RejectedByConsent" THEN u = req.user_id
       ELSE FALSE
    /\ user_consents' = grant_consent(user_consents, u, {"analytics"}, now)
    /\ granted' = [granted EXCEPT ![u] = {now}]
    /\ UNCHANGED <<now, ret, usageVars, thr, routerVars, redactVars, memoryVars, analytics, req,
                   served>>

\* app.py, lines 480-507: DELETE /api/data/<user_id>, asked by the user of the
\* request that has just been answered.  delete_user_data of the compliance
\* manager and clear_conversation of the memory are the two calls it makes.
DeleteUserData(u) ==
    /\ req.pc \in Terminal
    /\ u = req.user_id
    /\ \E d \in {delete_user_data(user_consents, u, now)} :
           /\ user_consents' = d.user_consents
           /\ ret' = [op |-> "delete_user_data", user_id |-> u, result |-> d.report]
    /\ conversations' = clear_conversation(conversations, u).conversations
    /\ appended' = [appended EXCEPT ![u] = <<>>]
    /\ context_ret' = NoContext
    /\ granted' = [granted EXCEPT ![u] = {}]
    /\ UNCHANGED <<now, usageVars, thr, routerVars, redactVars, mnow, analytics, req, served>>

Next ==
    \/ \E u \in Users, region \in Regions, message \in ChatMessages : ChatReceive(u, region, message)
    \/ ChatAdmit
    \/ ChatPrivacy
    \/ ChatContext
    \/ \E outcome \in RetrievalOutcomes : ChatRetrieve(outcome)
    \/ ChatRoute
    \/ \E outcome \in Answers \cup ErrorKinds : ChatProvider(outcome)
    \/ \E outcome \in Answers \cup ErrorKinds : ChatFallback(outcome)
    \/ ChatValidate
    \/ ChatLog
    \/ ChatRespond
    \/ ChatFail
    \/ \E u \in Users : GrantConsent(u)
    \/ \E u \in Users : DeleteUserData(u)

Spec == InitSpec /\ [][Next]_vars

-----------------------------------------------------------------------------
(* The consent table driven by direct calls *)

\* The operations that read a user's consent.
ConsentReads == {"has_consent", "process_query", "export_user_data"}

ConsentPurposes == {{"analytics"}, {"analytics", "marketing"}}

\* The dict process_query returns.
ProcessResult(r) ==
    [cleaned_query |-> r.cleaned_query, pii_detected |-> r.pii_detected, region |-> r.region,
     requires_consent |-> r.requires_consent, consent_required |-> r.consent_required]

\* What the read operation op returns for user_id at time t on the table
\* consents.
ConsentRead(op, consents, user_id, region, t) ==
    CASE op = "has_consent" -> has_consent(consents, user_id, t).result
      [] op = "process_query" ->
            ProcessResult(process_query(consents, user_id, "What is Bitcoin?", region, t))
      [] op = "export_user_data" -> export_user_data(consents, user_id, t)

\* The table a read operation leaves behind.
ConsentsAfter(op, consents, user_id, region, t) ==
    CASE op = "has_consent" -> has_consent(consents, user_id, t).user_consents
      [] op = "process_query" ->
            process_query(consents, user_id, "What is Bitcoin?", region, t).user_consents
      [] op = "export_user_data" -> consents

\* The part of the table a call for user_id can read: that user's record.
RecordOf(consents, user_id) ==
    [u \in DOMAIN consents \cap {user_id} |-> consents[u]]

InitSpecConsent ==
    /\ now = 0
    /\ InitUsageEmpty
    /\ InitThreads
    /\ ret = NoCall
    /\ InitRouterIdle
    /\ InitAppIdle

\* grant_consent is called and returns True.
GrantPurposes(u, purposes) ==
    /\ user_consents' = grant_consent(user_consents, u, purposes, now)
    /\ ret' = [op |-> "grant_consent", user_id |-> u, t |-> now,
               before |-> RecordOf(user_consents, u), result |-> TRUE]
    /\ granted' = [granted EXCEPT ![u] = {now}]
    /\ UNCHANGED <<now, usageVars, thr, routerVars, redactVars, memoryVars, analytics, req,
                   served>>

\* revoke_consent is called and returns.
RevokeConsent(u) ==
    /\ \E r \in {revoke_consent(user_consents, u)} :
           /\ user_consents' = r.user_consents
           /\ ret' = [op |-> "revoke_consent", user_id |-> u, t |-> now,
                      before |-> RecordOf(user_consents, u), result |-> r.result]
    /\ granted' = [granted EXCEPT ![u] = {}]
    /\ UNCHANGED <<now, usageVars, thr, routerVars, redactVars, memoryVars, analytics, req,
                   served>>

\* delete_user_data is called and returns.
DeleteConsent(u) ==
    /\ \E d \in {delete_user_data(user_consents, u, now)} :
           /\ user_consents' = d.user_consents
           /\ ret' = [op |-> "delete_user_data", user_id |-> u, t |-> now,
                      before |-> RecordOf(user_consents, u), result |-> d.report]
    /\ granted' = [granted EXCEPT ![u] = {}]
    /\ UNCHANGED <<now, usageVars, thr, routerVars, redactVars, memoryVars, analytics, req,
                   served>>

\* has_consent, process_query or export_user_data is called and returns.
ReadConsent(op, u, region) ==
    /\ \E result \in {ConsentRead(op, user_consents, u, region, now)} :
           ret' = [op |-> op, user_id |-> u, region |-> region, t |-> now,
                   before |-> RecordOf(user_consents, u), result |-> result]
    /\ user_consents' = ConsentsAfter(op, user_consents, u, region, now)
    /\ UNCHANGED <<now, usageVars, thr, routerVars, redactVars, memoryVars, analytics, req,
                   served, granted>>

\* Time passes: a day, or the lifetime of a consent.
ConsentTick ==
    \E d \in {1, ConsentDays} :
        /\ now + d <= MaxConsentNow
        /\ d = 1 => now % ConsentDays < MaxDaySteps
        /\ now' = now + d
        /\ UNCHANGED <<ret, usageVars, thr, routerVars, appVars>>

NextConsent ==
    \/ \E u \in Users, purposes \in ConsentPurposes : GrantPurposes(u, purposes)
    \/ \E u \in Users : RevokeConsent(u)
    \/ \E u \in Users : DeleteConsent(u)
    \/ \E op \in ConsentReads, u \in Users, region \in Regions : ReadConsent(op, u, region)
    \/ ConsentTick

SpecConsent == InitSpecConsent /\ [][NextConsent]_vars

-----------------------------------------------------------------------------
(* The response validator driven by direct calls *)

\* The pieces the responses handed to validate are put together from: plain
\* wording, phrases of the dangerous list in either case, words of the
\* replacement table, and a phrase of financial advice.
ResponsePieces ==
    {"Staking locks tokens", "GUARANTEED returns", "zero risk", "risk-free", "you cannot lose",
     "never sell your keys", "100% safe", "free money", "Definitely Safe", "get rich quick",
     "prices always vary"}

RECURSIVE ResponsesOf(_)
ResponsesOf(n) ==
    IF n = 1 THEN ResponsePieces
    ELSE LET shorter == ResponsesOf(n - 1)
         IN  shorter \cup {r \o " " \o piece : r \in shorter, piece \in ResponsePieces}

ValidatorResponses == ResponsesOf(MaxPhrases)

\* A response is about to be handed to validate.
InitSpecValidator ==
    /\ now = 0
    /\ InitUsageEmpty
    /\ InitThreads
    /\ ret \in {[op |-> "call", response |-> response] : response \in ValidatorResponses}
    /\ InitRouterIdle
    /\ InitAppIdle

\* validate is called on the response and returns.
Validate ==
    /\ ret.op = "call"
    /\ ret' = [op |-> "validate", response |-> ret.response,
               result |-> validate(ret.response)]
    /\ UNCHANGED <<now, usageVars, thr, routerVars, appVars>>

NextValidator == Validate

SpecValidator == InitSpecValidator /\ [][NextValidator]_vars

-----------------------------------------------------------------------------
(* calculate_complexity_score applied to pairs of queries *)

\* What the queries are put together from: indicator words and technical
\* terms, in either case, the third piece six technical terms at once.
TriggerPieces ==
    <<"how", "Explain",
      "smart contract liquidity pool impermanent loss yield farming staking rewards gas fees",
      "defi bridge", "why compare", "Slippage">>

\* Padding that puts a query into the short, the middle or the long band.
Paddings == {"", Filler(MidQueryLen), Filler(LongQueryLen)}

\* The pieces numbered in S, in order, each followed by a blank.
RECURSIVE PiecesFrom(_, _)
PiecesFrom(S, i) ==
    IF i > Len(TriggerPieces) THEN ""
    ELSE (IF i \in S THEN TriggerPieces[i] \o " " ELSE "") \o PiecesFrom(S, i + 1)

ScoredQueries ==
    {PiecesFrom(S, 1) \o padding \o marks :
        S \in SUBSET (1..MaxTriggerPieces), padding \in Paddings, marks \in {"?", "??"}}

\* calculate_complexity_score of each of them, computed once.
ScoreOf == [q \in ScoredQueries |-> calculate_complexity_score(q)]

\* Two queries are about to be scored.
InitSpecScore ==
    /\ now = 0
    /\ InitUsageEmpty
    /\ InitThreads
    /\ ret \in {[op |-> "call", first |-> q1, second |-> q2] :
                    q1 \in ScoredQueries, q2 \in ScoredQueries}
    /\ InitRouterIdle
    /\ InitAppIdle

\* calculate_complexity_score is called on each of the two and returns.
ScoreBoth ==
    /\ ret.op = "call"
    /\ ret' = [op |-> "calculate_complexity_score", first |-> ret.first,
               second |-> ret.second, first_score |-> ScoreOf[ret.first],
               second_score |-> ScoreOf[ret.second]]
    /\ UNCHANGED <<now, usageVars, thr, routerVars, appVars>>

NextScore == ScoreBoth

SpecScore == InitSpecScore /\ [][NextScore]_vars

-----------------------------------------------------------------------------
(* calculate_bill applied to the accounts the tracker can hold *)

\* The accounts: each tier, with the counter in the call windows.  The cost of
\* a Pro account is the overage charged so far.
BilledAccounts ==
    {[tier |-> t, queries_this_month |-> n,
      total_cost |-> IF t = "pro" /\ n > ProQuota THEN (n - ProQuota) * ProOverageCents ELSE 0,
      month_start |-> 0] : t \in Tiers, n \in CallWindow}

BilledTables == UNION {[S -> BilledAccounts] : S \in SUBSET {"u1"}}

\* calculate_bill is about to be called for a user.
InitSpecBilling ==
    /\ now = 0
    /\ user_usage \in BilledTables
    /\ usage_ret = [u \in Users |-> "none"]
    /\ period_calls = [u \in Users |-> Count(user_usage, u)]
    /\ period_admits = [u \in Users |-> Count(user_usage, u)]
    /\ period_free = [u \in Users |-> FALSE]
    /\ InitThreads
    /\ ret \in {[op |-> "call", user_id |-> u] : u \in Users}
    /\ InitRouterIdle
    /\ InitAppIdle

\* app.py, lines 365-385, GET /api/billing/<user_id>: calculate_bill is called
\* and returns or raises.
CalculateBill ==
    /\ ret.op = "call"
    /\ \E r \in {calculate_bill(user_usage, ret.user_id)} :
           ret' = [op |-> "calculate_bill", user_id |-> ret.user_id, result |-> r]
    /\ UNCHANGED <<now, usageVars, thr, routerVars, appVars>>

NextBilling == CalculateBill

SpecBilling == InitSpecBilling /\ [][NextBilling]_vars

-----------------------------------------------------------------------------
(* upgrade_tier applied, any number of times, to the accounts the tracker can hold *)

InitSpecUpgrade ==
    /\ now = 0
    /\ user_usage \in BilledTables
    /\ usage_ret = [u \in Users |-> "none"]
    /\ period_calls = [u \in Users |-> Count(user_usage, u)]
    /\ period_admits = [u \in Users |-> Count(user_usage, u)]
    /\ period_free = [u \in Users |-> FALSE]
    /\ InitThreads
    /\ ret = NoCall
    /\ InitRouterIdle
    /\ InitAppIdle

NextUpgrade == \E u \in Users, tier \in Tiers : UpgradeTier(u, tier)

SpecUpgrade == InitSpecUpgrade /\ [][NextUpgrade]_vars

-----------------------------------------------------------------------------
(* track_query called, as time passes, on the accounts the tracker can hold *)

InitSpecAdmit ==
    /\ now = 0
    /\ user_usage \in BilledTables
    /\ usage_ret = [u \in Users |-> "none"]
    /\ period_calls = [u \in Users |-> Count(user_usage, u)]
    /\ period_admits = [u \in Users |-> Count(user_usage, u)]
    /\ period_free = [u \in Users |-> FALSE]
    /\ InitThreads
    /\ ret = NoCall
    /\ InitRouterIdle
    /\ InitAppIdle

\* app.py, line 170: track_query(user_id) is called and returns.  The record
\* of the user before the call and after it are kept with the answer.
Admit(u) ==
    /\ IF StartsPeriod(user_usage, u, now) THEN TRUE ELSE period_calls[u] \in CallWindow
    /\ TrackQueryStep(u)
    /\ ret' = [op |-> "track_query", user_id |-> u, t |-> now,
               before |-> RecordOf(user_usage, u), after |-> user_usage'[u],
               result |-> usage_ret'[u] = "allowed"]
    /\ UNCHANGED <<now, thr, routerVars, appVars>>

NextAdmit ==
    \/ \E u \in Users : Admit(u)
    \/ Tick

SpecAdmit == InitSpecAdmit /\ [][NextAdmit]_vars

-----------------------------------------------------------------------------
(* log_interaction run by concurrent request handlers.  The handlers share   *)
(* one Analytics and take no lock; list.append and a single dict read or     *)
(* write are atomic, and a thread switch can fall between any two of them:   *)
(* d[k] += 1 is a read and then a write.                                     *)

\* What the variables other than analytics and thr are left as.
logFrame ==
    <<now, ret, usageVars, routerVars, redactVars, memoryVars, user_consents, req, served,
      granted>>

\* The queries logged: a general one and one about staking.
LoggedQueries == {"What is Bitcoin?", "How do I stake?"}

LoggedStatuses == {"success", "error"}

IdleLogger == [pc |-> "idle", user |-> "", query |-> "", status |-> "", tmp |-> 0]

\* d.get(k, 0)
Get0(d, k) == IF k \in DOMAIN d THEN d[k] ELSE 0

\* d[k] = v
Put(d, k, v) == [x \in DOMAIN d \cup {k} |-> IF x = k THEN v ELSE d[x]]

InitSpecLog ==
    /\ now = 0
    /\ InitUsageEmpty
    /\ thr = [h \in Handlers |-> IdleLogger]
    /\ ret = NoCall
    /\ InitRouterIdle
    /\ InitAppIdle

\* The thread h moves to the step pc, holding tmp.
LogGoto(h, pc, tmp) == thr' = [thr EXCEPT ![h] = [@ EXCEPT !.pc = pc, !.tmp = tmp]]

\* Lines 73-93: a handler enters log_interaction, builds the interaction and
\* appends it.
LogCall(h, u, query, status) ==
    /\ thr[h].pc = "idle"
    /\ Len(analytics.interactions) < MaxLogs
    /\ analytics' = [analytics EXCEPT !.interactions =
                        Append(@, [user_id |-> u, query_hash |-> query_hash(query),
                                   query_length |-> Len(query),
                                   query_category |-> classify_query(query),
                                   response_length |-> 0, provider |-> "gemini",
                                   status |-> status])]
    /\ thr' = [thr EXCEPT ![h] = [pc |-> "load_total", user |-> u, query |-> query,
                                  status |-> status, tmp |-> 0]]
    /\ UNCHANGED logFrame

\* Line 96, self.metrics['total_queries'] += 1: the read ...
LogLoadTotal(h) ==
    /\ thr[h].pc = "load_total"
    /\ LogGoto(h, "store_total", analytics.metrics.total_queries)
    /\ UNCHANGED <<analytics, logFrame>>

\* ... and the write.
LogStoreTotal(h) ==
    /\ thr[h].pc = "store_total"
    /\ analytics' = [analytics EXCEPT !.metrics.total_queries = thr[h].tmp + 1]
    /\ LogGoto(h, "load_status", 0)
    /\ UNCHANGED logFrame

\* Lines 97-100: successful_queries or failed_queries += 1, the read ...
LogLoadStatus(h) ==
    /\ thr[h].pc = "load_status"
    /\ LogGoto(h, "store_status", IF thr[h].status = "success"
                                  THEN analytics.metrics.successful_queries
                                  ELSE analytics.metrics.failed_queries)
    /\ UNCHANGED <<analytics, logFrame>>

\* ... and the write.
LogStoreStatus(h) ==
    /\ thr[h].pc = "store_status"
    /\ analytics' = IF thr[h].status = "success"
                    THEN [analytics EXCEPT !.metrics.successful_queries = thr[h].tmp + 1]
                    ELSE [analytics EXCEPT !.metrics.failed_queries = thr[h].tmp + 1]
    /\ LogGoto(h, "load_category", 0)
    /\ UNCHANGED logFrame

\* Line 105, self.query_categories[category] += 1: the read, which makes the
\* defaultdict store 0 under a missing key ...
LogLoadCategory(h) ==
    /\ thr[h].pc = "load_category"
    /\ LET category == classify_query(thr[h].query)
       IN  /\ LogGoto(h, "store_category", Get0(analytics.query_categories, category))
           /\ analytics' = [analytics EXCEPT !.query_categories =
                               Put(@, category, Get0(@, category))]
    /\ UNCHANGED logFrame

\* ... and the write.
LogStoreCategory(h) ==
    /\ thr[h].pc = "store_category"
    /\ analytics' = [analytics EXCEPT !.query_categories =
                        Put(@, classify_query(thr[h].query), thr[h].tmp + 1)]
    /\ LogGoto(h, "check_cache", 0)
    /\ UNCHANGED logFrame

\* _update_query_cache, line 151: the test "query_hash not in self.query_cache".
LogCheckCache(h) ==
    /\ thr[h].pc = "check_cache"
    /\ LogGoto(h, IF query_hash(thr[h].query) \in DOMAIN analytics.query_cache
                  THEN "load_hit" ELSE "new_cache", 0)
    /\ UNCHANGED <<analytics, logFrame>>

\* Lines 152-156: the entry is stored with hit_count 0.
LogNewCache(h) ==
    /\ thr[h].pc = "new_cache"
    /\ analytics' = [analytics EXCEPT !.query_cache = Put(@, query_hash(thr[h].query), 0)]
    /\ LogGoto(h, "load_hit", 0)
    /\ UNCHANGED logFrame

\* Line 158, hit_count += 1: the read ...
LogLoadHit(h) ==
    /\ thr[h].pc = "load_hit"
    /\ LogGoto(h, "store_hit", analytics.query_cache[query_hash(thr[h].query)])
    /\ UNCHANGED <<analytics, logFrame>>

\* ... and the write.
LogStoreHit(h) ==
    /\ thr[h].pc = "store_hit"
    /\ analytics' = [analytics EXCEPT !.query_cache =
                        Put(@, query_hash(thr[h].query), thr[h].tmp + 1)]
    /\ LogGoto(h, "check_session", 0)
    /\ UNCHANGED logFrame

\* _update_user_session, line 163: the test "user_id not in self.user_sessions".
LogCheckSession(h) ==
    /\ thr[h].pc = "check_session"
    /\ LogGoto(h, IF thr[h].user \in DOMAIN analytics.user_sessions
                  THEN "load_session" ELSE "new_session", 0)
    /\ UNCHANGED <<analytics, logFrame>>

\* Lines 164-170: the session is stored with query_count 0.
LogNewSession(h) ==
    /\ thr[h].pc = "new_session"
    /\ analytics' = [analytics EXCEPT !.user_sessions = Put(@, thr[h].user, 0)]
    /\ LogGoto(h, "load_session", 0)
    /\ UNCHANGED logFrame

\* Line 174, session['query_count'] += 1: the read ...
LogLoadSession(h) ==
    /\ thr[h].pc = "load_session"
    /\ LogGoto(h, "store_session", analytics.user_sessions[thr[h].user])
    /\ UNCHANGED <<analytics, logFrame>>

\* ... and the write; log_interaction returns.
LogStoreSession(h) ==
    /\ thr[h].pc = "store_session"
    /\ analytics' = [analytics EXCEPT !.user_sessions = Put(@, thr[h].user, thr[h].tmp + 1)]
    /\ thr' = [thr EXCEPT ![h] = IdleLogger]
    /\ UNCHANGED logFrame

NextLog ==
    \/ \E h \in Handlers, u \in Users, query \in LoggedQueries, status \in LoggedStatuses :
           LogCall(h, u, query, status)
    \/ \E h \in Handlers : LogLoadTotal(h)
    \/ \E h \in Handlers : LogStoreTotal(h)
    \/ \E h \in Handlers : LogLoadStatus(h)
    \/ \E h \in Handlers : LogStoreStatus(h)
    \/ \E h \in Handlers : LogLoadCategory(h)
    \/ \E h \in Handlers : LogStoreCategory(h)
    \/ \E h \in Handlers : LogCheckCache(h)
    \/ \E h \in Handlers : LogNewCache(h)
    \/ \E h \in Handlers : LogLoadHit(h)
    \/ \E h \in Handlers : LogStoreHit(h)
    \/ \E h \in Handlers : LogCheckSession(h)
    \/ \E h \in Handlers : LogNewSession(h)
    \/ \E h \in Handlers : LogLoadSession(h)
    \/ \E h \in Handlers : LogStoreSession(h)

SpecLog == InitSpecLog /\ [][NextLog]_vars

-----------------------------------------------------------------------------
(* Claims about the usage tracker *)

\* C1: for an identity that has been on the Free tier for the whole accounting
\* period, queries_this_month never goes above the quota of 100, at most 100
\* track_query calls of the period returned True, and the 101st call and every
\* later call of the period returned False.
C1_FreeQuotaEnforced ==
    \A u \in DOMAIN user_usage :
        period_free[u] =>
            /\ user_usage[u].queries_this_month <= FreeQuota
            /\ period_admits[u] <= FreeQuota
            /\ period_calls[u] > FreeQuota => usage_ret[u] = "rejected"

\* A Free identity whose 101st call of the period has just been rejected.
C1_Witness ==
    \E u \in DOMAIN user_usage :
        /\ period_free[u]
        /\ period_calls[u] = FreeQuota + 1
        /\ period_admits[u] = FreeQuota
        /\ usage_ret[u] = "rejected"
        /\ user_usage[u].queries_this_month = FreeQuota

\* C11: whatever track_query and upgrade_tier calls have been made, with tier
\* changes in any direction, an account that is on the Free tier now has
\* queries_this_month at most the Free quota.
C11_FreeCounterWithinQuota ==
    \A u \in DOMAIN user_usage :
        user_usage[u].tier = "free" => user_usage[u].queries_this_month <= FreeQuota

\* C2: when two handlers run track_query concurrently for the same Free
\* identity whose counter is at quota - 1, exactly one of the two calls is
\* admitted and the other is rejected.
C2_ExactlyOneAdmitted ==
    \A h1, h2 \in Handlers :
        ( /\ h1 # h2
          /\ thr[h1].pc = "done" /\ thr[h2].pc = "done"
          /\ thr[h1].user = thr[h2].user
          /\ user_usage[thr[h1].user].tier = "free"
          /\ thr[h1].seen = FreeQuota - 1 /\ thr[h2].seen = FreeQuota - 1 )
        => (thr[h1].ret = "allowed") # (thr[h2].ret = "allowed")

\* What the tier's configuration makes of a counter: the charge for the
\* queries above the quota on the tier that sells overage, 0 on the others.
OverageCharge(usage) ==
    IF TIER_CONFIGS[usage.tier].overage_per_query > 0
       /\ usage.queries_this_month > TIER_CONFIGS[usage.tier].queries_per_month
    THEN TIER_CONFIGS[usage.tier].overage_per_query
             * (usage.queries_this_month - TIER_CONFIGS[usage.tier].queries_per_month)
    ELSE 0

\* C19: for an account of any tier and any counter, calculate_bill does not
\* fail, and the total of the bill is the base price of the tier plus the
\* overage charge.
C19_BillIsBasePlusOverage ==
    (ret.op = "calculate_bill" /\ ret.user_id \in DOMAIN user_usage) =>
        /\ ret.result.raised = ""
        /\ ret.result.bill.total =
               TIER_CONFIGS[user_usage[ret.user_id].tier].price_monthly * CentsPerDollar
                   + OverageCharge(user_usage[ret.user_id])

\* C20: upgrade_tier on an existing account changes its tier and nothing else:
\* queries_this_month, total_cost and month_start are as they were, the other
\* accounts are untouched, and the same upgrade applied once more leaves the
\* table as it is.
C20_UpgradeKeepsCounters ==
    [][\A u \in Users, tier \in Tiers :
          (UpgradeTier(u, tier) /\ u \in DOMAIN user_usage) =>
              /\ user_usage' = [user_usage EXCEPT ![u].tier = tier]
              /\ user_usage'[u].queries_this_month = user_usage[u].queries_this_month
              /\ user_usage'[u].total_cost = user_usage[u].total_cost
              /\ user_usage'[u].month_start = user_usage[u].month_start
              /\ upgrade_tier(user_usage', u, tier, now') = user_usage']_vars

\* An account with overage cost, which only the Pro tier is charged, is on the
\* Enterprise tier: it was upgraded from Pro with its counter and its cost
\* kept.
C20_Witness ==
    \E u \in DOMAIN user_usage :
        /\ user_usage[u].tier = "enterprise"
        /\ user_usage[u].queries_this_month > ProQuota
        /\ user_usage[u].total_cost > 0

\* A track_query call has returned for a user who had a record.
Admitted == ret.op = "track_query" /\ ret.user_id \in DOMAIN ret.before

\* The call was made more than a period after the month_start it found.
PeriodOver == ret.t - ret.before[ret.user_id].month_start > PeriodDays

\* C22: a track_query call made more than 30 days after month_start resets the
\* account before the limit is checked: the call is allowed, whatever the
\* counter was, and leaves the counter at 1, the cost at 0 and month_start at
\* the time of the call.  A call made 30 days after month_start or earlier
\* resets nothing: month_start stays, the counter and the cost do not go down.
C22_LazyRolloverAfterPeriod ==
    Admitted =>
        LET before == ret.before[ret.user_id]
        IN  IF PeriodOver
            THEN /\ ret.result
                 /\ ret.after.queries_this_month = 1
                 /\ ret.after.total_cost = 0
                 /\ ret.after.month_start = ret.t
            ELSE /\ ret.after.month_start = before.month_start
                 /\ ret.after.queries_this_month >= before.queries_this_month
                 /\ ret.after.total_cost >= before.total_cost
                 /\ before.tier = "free" /\ before.queries_this_month >= FreeQuota
                        => ~ret.result

\* A Free user at the quota is admitted by the first call after the period.
C22_Witness ==
    /\ Admitted
    /\ PeriodOver
    /\ ret.before[ret.user_id].tier = "free"
    /\ ret.before[ret.user_id].queries_this_month = FreeQuota
    /\ ret.result
    /\ ret.after.queries_this_month = 1

\* The counter and the cost the limit check of the call found: those of the
\* record, or 0 when the call began a new period (C22).
CounterChecked == IF PeriodOver THEN 0 ELSE ret.before[ret.user_id].queries_this_month

CostChecked == IF PeriodOver THEN 0 ELSE ret.before[ret.user_id].total_cost

\* C23: track_query never refuses a Pro or an Enterprise user and adds exactly
\* one to the counter on each call; a call of a Pro user that finds the counter
\* at the quota or above it adds exactly one overage charge to the cost, and
\* every other call adds nothing to it.
C23_PaidTiersAlwaysAdmitted ==
    ( Admitted /\ ret.before[ret.user_id].tier \in {"pro", "enterprise"} ) =>
        /\ ret.result
        /\ ret.after.queries_this_month = CounterChecked + 1
        /\ ret.after.total_cost =
              CostChecked + (IF ret.before[ret.user_id].tier = "pro" /\ CounterChecked >= ProQuota
                             THEN ProOverageCents ELSE 0)

\* A Pro user over the quota has been charged a second overage.
C23_Witness ==
    /\ Admitted
    /\ ret.before[ret.user_id].tier = "pro"
    /\ ret.before[ret.user_id].queries_this_month > ProQuota
    /\ ret.result
    /\ ret.after.total_cost = ret.before[ret.user_id].total_cost + ProOverageCents
    /\ ret.after.total_cost >= 2 * ProOverageCents

-----------------------------------------------------------------------------
(* Claims about the router *)

\* C4: query_with_routing never raises to its caller and always returns a
\* response, whatever the query and whichever providers are available,
\* none included.
C4_RouteNeverRaises ==
    rt.pc = "done" => rt.raised = ""

\* Every attempt of the finished call failed.
AllAttemptsFailed ==
    /\ rt.pc = "done"
    /\ rt.attempts # <<>>
    /\ \A i \in DOMAIN rt.attempts : rt.attempts[i].error # ""

\* C5: when the primary provider and every fallback provider failed, the result
\* is the apology with status "error", and the error attached to it is that of
\* the last failed attempt.
C5_LastErrorAttached ==
    AllAttemptsFailed =>
        /\ rt.result.answer = ApologyAnswer
        /\ rt.result.status = "error"
        /\ rt.result.error = rt.attempts[Len(rt.attempts)].error

\* The place of a provider in the fixed order.
OrderIndex(p) == CHOOSE i \in DOMAIN ProviderOrder : ProviderOrder[i] = p

\* The available providers other than the selected one that come before p in
\* the fixed order.
EarlierFallbacks(p) ==
    {q \in Providers : /\ available[q]
                       /\ q # rt.provider
                       /\ OrderIndex(q) < OrderIndex(p)}

\* C24: in one query_with_routing call no provider is invoked twice and none
\* that is unavailable is invoked; the selected provider is invoked first and,
\* after a failure, the other available providers in the fixed order; no
\* provider is invoked after one has answered; the call ends with an answer or
\* when every available provider has failed, after at most as many attempts as
\* there are providers.
C24_EachProviderAtMostOnce ==
    LET attempts == rt.attempts
        n == Len(attempts)
    IN  /\ \A i, j \in 1..n : attempts[i].provider = attempts[j].provider => i = j
        /\ \A i \in 1..n : available[attempts[i].provider]
        /\ n <= Cardinality(Providers)
        /\ n > 0 => attempts[1].provider = rt.provider
        /\ \A i \in 2..n : /\ attempts[i].provider # rt.provider
                            /\ Cardinality(EarlierFallbacks(attempts[i].provider)) = i - 2
        /\ \A i \in 1..(n - 1) : attempts[i].error # ""
        /\ (n > 0 /\ attempts[n].error = "") => rt.pc = "done"
        /\ (rt.pc = "done" /\ rt.raised = "") =>
               IF attempts[n].error = ""
               THEN rt.result.provider = attempts[n].provider
               ELSE {attempts[i].provider : i \in 1..n} = {q \in Providers : available[q]}

\* The selected provider, the last in the fixed order, failed, the first
\* fallback failed and the second answered.
C24_Witness ==
    /\ rt.pc = "done"
    /\ Len(rt.attempts) = Len(ProviderOrder)
    /\ rt.attempts[1].provider = ProviderOrder[Len(ProviderOrder)]
    /\ rt.attempts[Len(rt.attempts)].error = ""

\* The providers select_provider prefers for a score: Gemini for a simple
\* query, Perplexity or Gemini for a medium one, OpenAI for a complex one.
PreferredProviders(complexity_score) ==
    IF complexity_score <= LowBandMax THEN {"gemini"}
    ELSE IF complexity_score <= MidBandMax THEN {"perplexity", "gemini"}
    ELSE {"openai"}

\* C25: whenever select_provider returns a provider that is not one of those
\* preferred for the score, it returns the first available provider of the
\* fixed order and fallback_count goes up by one, whichever band the score is
\* in.
C25_FallbackCounted ==
    [][\A q \in Queries :
          ( /\ RouteCall(q)
            /\ rt'.raised = ""
            /\ rt'.provider \notin PreferredProviders(rt'.complexity) )
          => /\ rt'.provider = FirstAvailable(available)
             /\ fallback_count' = fallback_count + 1]_vars

-----------------------------------------------------------------------------
(* Claims about the PII detector *)

\* C7: for every text t, redact(redact(t)) is the same text as redact(t), and
\* none of the five patterns (email, phone, crypto_address, credit_card, ssn)
\* matches redact(t).
C7_RedactIdempotent ==
    Len(pii_out) >= 1 =>
        /\ detect(pii_out[1].redacted) = {}
        /\ Len(pii_out) >= 2 => pii_out[2].redacted = pii_out[1].redacted

\* A text with matches of two patterns at least has been redacted twice.
C7_Witness ==
    /\ Len(pii_out) = 2
    /\ Cardinality(detect(pii_text)) >= 2
    /\ pii_out[1].pii_found
    /\ pii_out[1].redacted # pii_text

\* The providers that are available.
AvailableProviders == {p \in Providers : available[p]}

\* C16: for a query whose complexity score is in the low band (at most 4) and
\* any configuration with an available provider, the provider select_provider
\* returns is available and no available provider has a lower configured cost.
C16_LowBandTakesCheapest ==
    (rt.pc = "primary" /\ rt.complexity <= LowBandMax) =>
        /\ rt.provider \in AvailableProviders
        /\ \A p \in AvailableProviders :
               providers_config[rt.provider].cost_per_1m_tokens
                   <= providers_config[p].cost_per_1m_tokens

\* C17: the query about optimistic and zk rollups gets a complexity score in
\* the high band (above 7) and goes to the available provider of the highest
\* quality.
C17_RollupQueryIsHighBand ==
    (rt.pc = "primary" /\ rt.query = RollupQuery) =>
        /\ rt.complexity > MidBandMax
        /\ rt.provider \in AvailableProviders
        /\ \A p \in AvailableProviders :
               providers_config[rt.provider].quality_score >= providers_config[p].quality_score

\* The technical terms and indicator words present in a query.
TriggersIn(query) ==
    {t \in technical_terms \cup complex_indicators : Contains(Lower(query), t)}

TriggersOf == [q \in ScoredQueries |-> TriggersIn(q)]

\* 0, 1 or 2: at most 100 characters, at most 200, more.
LengthBand(query) ==
    IF Len(query) > LongQueryLen THEN 2 ELSE IF Len(query) > MidQueryLen THEN 1 ELSE 0

\* C18: of two queries in the same length band and with the same number of
\* question marks, the one whose technical terms and indicator words are all
\* present in the other has the smaller or the same complexity score; every
\* score is at least 1 and at most 10.
C18_ScoreMonotoneAndBounded ==
    ret.op = "calculate_complexity_score" =>
        /\ ( /\ LengthBand(ret.first) = LengthBand(ret.second)
             /\ CountChar(ret.first, "?") = CountChar(ret.second, "?")
             /\ TriggersOf[ret.first] \subseteq TriggersOf[ret.second] )
           => ret.first_score <= ret.second_score
        /\ ret.first_score \in BaseScore..MaxScore
        /\ ret.second_score \in BaseScore..MaxScore

\* Two queries of the long band with two question marks: the second has the
\* triggers of the first and more, enough for its score to be capped at 10.
C18_Witness ==
    /\ ret.op = "calculate_complexity_score"
    /\ LengthBand(ret.first) = 2 /\ LengthBand(ret.second) = 2
    /\ CountChar(ret.first, "?") = 2 /\ CountChar(ret.second, "?") = 2
    /\ TriggersOf[ret.first] \subseteq TriggersOf[ret.second]
    /\ BaseScore + LengthBand(ret.second) + Cardinality(TriggersOf[ret.second]) + 2 > MaxScore
    /\ ret.first_score < ret.second_score
    /\ ret.second_score = MaxScore

-----------------------------------------------------------------------------
(* Claims about the conversation memory *)

LastMessage(u) == conversations[u].messages[Len(conversations[u].messages)]

\* The context of u's session before it is cut to the budget.
FullContext(u) == Join(<<ContextHeader>> \o ContextLines(conversations[u].messages), "\n")

\* C8: whatever messages have been added, the text get_context returns is at
\* most max_context_tokens * 4 characters long.
C8_ContextWithinBudget ==
    context_ret.user_id # "" =>
        Len(context_ret.context) <= max_context_tokens * CharsPerToken

\* get_context has cut the context of a full session down to the budget.
C8_Witness ==
    /\ context_ret.live
    /\ Len(conversations[context_ret.user_id].messages) = max_history
    /\ Len(FullContext(context_ret.user_id)) > max_context_tokens * CharsPerToken
    /\ Len(context_ret.context) = max_context_tokens * CharsPerToken

\* C9: for a session that has not expired, the text get_context returns
\* contains the whole content of the message added last, however long that
\* message and the earlier ones are.
C9_LastMessageInContext ==
    (context_ret.live /\ conversations[context_ret.user_id].messages # <<>>) =>
        Contains(context_ret.context, LastMessage(context_ret.user_id).content)

\* C9, amended: for a session that has not expired, the text get_context
\* returns contains the whole content of the message added last when that
\* message is no longer than max_context_tokens * 4 characters.
C9_LastMessageInContextIfItFits ==
    (/\ context_ret.live
     /\ conversations[context_ret.user_id].messages # <<>>
     /\ Len(LastMessage(context_ret.user_id).content) <= max_context_tokens * CharsPerToken) =>
        Contains(context_ret.context, LastMessage(context_ret.user_id).content)

\* The context was cut and the last message, exactly as long as the budget,
\* is all that is left of it.
C9_Witness ==
    /\ context_ret.live
    /\ Len(conversations[context_ret.user_id].messages) >= 2
    /\ Len(LastMessage(context_ret.user_id).content) = max_context_tokens * CharsPerToken
    /\ context_ret.context = LastMessage(context_ret.user_id).content

\* C10: after n add_message calls for a user, the session holds the
\* min(n, max_history) messages added last, in the order they were added; a call
\* on a full session drops the oldest message and keeps the new one.
C10_SlidingWindow ==
    \A u \in DOMAIN conversations :
        LET n == Len(appended[u])
            k == IF n < max_history THEN n ELSE max_history
        IN  /\ n >= 1
            /\ conversations[u].messages = SubSeq(appended[u], n - k + 1, n)

\* More messages than max_history have been added to a session.
C10_Witness ==
    \E u \in DOMAIN conversations :
        /\ Len(appended[u]) > max_history
        /\ Len(conversations[u].messages) = max_history

\* The session of u has been idle for longer than the TTL.
IdleBeyondTTL(u) == u \in DOMAIN conversations /\ Expired(conversations[u], mnow)

\* C26: once a session has been idle for longer than the TTL, get_context
\* returns the empty string and deletes the session, get_messages returns
\* none of its messages, and after an add_message the context holds the new
\* message and none of those from before the idle gap.
C26_ExpiredNeverObserved ==
    [][\A u \in MemoryUsers :
          IdleBeyondTTL(u) =>
              /\ GetContext(u) =>
                     context_ret'.context = "" /\ u \notin DOMAIN conversations'
              /\ GetMessages(u) => ret'.result = <<>>
              /\ \A role \in Roles, content \in Contents :
                     AddMessage(u, role, content) =>
                         conversations'[u].messages = <<[role |-> role, content |-> content]>>
      ]_vars

-----------------------------------------------------------------------------
(* Claims about analytics *)

\* The sum of the values of a dict of numbers.
RECURSIVE SumOf(_)
SumOf(d) ==
    IF DOMAIN d = {} THEN 0
    ELSE LET k == CHOOSE x \in DOMAIN d : TRUE
         IN  d[k] + SumOf([x \in DOMAIN d \ {k} |-> d[x]])

\* C27: when every log_interaction call of the concurrent handlers has
\* returned, total_queries is the number of interactions appended, and so are
\* successful_queries + failed_queries, the sum of query_categories, the sum of
\* the hit counts of query_cache and the sum of the query counts of
\* user_sessions.
C27_NoIncrementLost ==
    (\A h \in Handlers : thr[h].pc = "idle") =>
        LET n == Len(analytics.interactions)
        IN  /\ analytics.metrics.total_queries = n
            /\ analytics.metrics.successful_queries + analytics.metrics.failed_queries = n
            /\ SumOf(analytics.query_categories) = n
            /\ SumOf(analytics.query_cache) = n
            /\ SumOf(analytics.user_sessions) = n

-----------------------------------------------------------------------------
(* Claims about the chat handler *)

\* C3: in every request, the documents are retrieved and a provider is invoked
\* only after track_query returned True and process_query did not signal
\* consent_required; a request that ends in RejectedByQuota or RejectedByConsent
\* has reached neither the retrieval nor a provider.
C3_ProviderOnlyAfterAdmitAndConsent ==
    /\ (req.retrieved \/ rt.pc # "idle" \/ rt.attempts # <<>>) =>
           (req.admitted /\ ~req.consent_required)
    /\ req.pc \in {"RejectedByQuota", "RejectedByConsent"} =>
           (~req.retrieved /\ rt.pc = "idle" /\ rt.attempts = <<>>)

\* A request from the EU of a user whose consent has expired was admitted and
\* then stopped for consent.
C3_Witness ==
    /\ req.pc = "RejectedByConsent"
    /\ req.admitted
    /\ req.region = "EU"
    /\ req.user_id \notin DOMAIN user_consents
    /\ rt.attempts = <<>>

\* C6: when every provider attempt of an admitted, consent-cleared request has
\* failed, the request still ends in Done, the caller is sent a response whose
\* status is error, and an interaction with status error is logged for it.
C6_DegradedResponseIsError ==
    (req.pc = "Done" /\ AllAttemptsFailed) =>
        /\ req.admitted /\ ~req.consent_required
        /\ req.result.status = "error"
        /\ analytics.interactions # <<>>
        /\ analytics.interactions[Len(analytics.interactions)].user_id = req.user_id
        /\ analytics.interactions[Len(analytics.interactions)].status = "error"


\* The user message and the final answer of the request are the last two
\* messages added to the user's session.
ExchangeAppended ==
    LET added == appended[req.user_id]
        n == Len(added)
    IN  /\ n >= 2
        /\ added[n - 1] = [role |-> "user", content |-> req.final_query]
        /\ added[n] = [role |-> "assistant", content |-> req.final_answer]

\* The answer of the router has been through validate.
AnswerValidated == req.final_answer = ModifiedResponses[rt.result.answer]

\* C28: for an answered request the steps come in the stated order: a
\* provider is invoked only when the context has been read from the
\* conversation memory, the exchange is added to the memory and the interaction
\* is logged only when the answer has been validated, and the interaction is
\* logged only when the user message and the final answer have been added to
\* the memory.
C28_StepsInStatedOrder ==
    [][ /\ (\E outcome \in Answers \cup ErrorKinds : ChatProvider(outcome)) =>
               /\ context_ret.user_id = req.user_id
               /\ context_ret.context = req.context
        /\ ChatRespond => AnswerValidated
        /\ ChatLog => AnswerValidated /\ ExchangeAppended
      ]_vars

\* C29: the usage check of a request that is let through adds exactly one to
\* queries_this_month, and no later step of the request, refusal for lack of
\* consent and failure included, changes the usage table: the query stays
\* counted.
C29_QuotaConsumedAtAdmission ==
    [][ /\ (ChatAdmit /\ req'.admitted) =>
               user_usage'[req.user_id].queries_this_month =
                   (IF StartsPeriod(user_usage, req.user_id, now) THEN 0
                    ELSE user_usage[req.user_id].queries_this_month) + 1
        /\ req.admitted => user_usage' = user_usage
      ]_vars

\* A request that took the last query of the user's quota was refused for
\* lack of consent.
C29_Witness ==
    /\ req.pc = "RejectedByConsent"
    /\ req.admitted
    /\ user_usage[req.user_id].queries_this_month = FreeQuota

-----------------------------------------------------------------------------
(* Claims about consent and the data of a user *)

\* C12: a consent record whose expires_at is in the past is the same as no
\* record: whatever has_consent, process_query or export_user_data returns for
\* a user with an expired record, it returns for that user with no record.
C12_ExpiredEqualsAbsent ==
    ( /\ ret.op \in ConsentReads
      /\ ret.user_id \in DOMAIN ret.before
      /\ ret.t > ret.before[ret.user_id].expires_at )
    => ret.result = ConsentRead(ret.op, Without(ret.before, ret.user_id), ret.user_id,
                                ret.region, ret.t)


\* The user's latest grant has been followed by no revoke and no delete, and
\* at time t its expiry lies d days or more ahead.
GrantStands(user_id, t, d) ==
    \E g \in granted[user_id] : t + d <= g + ConsentDays

HoldsNothing(u) ==
    /\ u \notin DOMAIN user_consents
    /\ u \notin DOMAIN user_usage
    /\ u \notin DOMAIN conversations
    /\ u \notin DOMAIN analytics.user_sessions
    /\ \A i \in DOMAIN analytics.interactions : analytics.interactions[i].user_id # u

\* C13: when the deletion of a user's data has completed, neither the consent
\* table, nor the usage accounts, nor the conversation sessions, nor the
\* analytics sessions and records hold an entry of that user.
C13_DeletionLeavesNothing ==
    [][\A u \in Users : DeleteUserData(u) => HoldsNothing(u)']_vars


-----------------------------------------------------------------------------
(* Claims about the response validator *)

\* The phrases of the dangerous list a text contains, whatever the case.
DangerousIn(text) ==
    {dangerous_phrases[k] : k \in {j \in DOMAIN dangerous_phrases :
                                       Contains(Lower(text), dangerous_phrases[j])}}

\* The hedged wordings the replacement table maps the words of a phrase to.
MappedReplacements(phrase) ==
    {replacements[k][2] : k \in {j \in DOMAIN replacements :
                                     Contains(phrase, replacements[j][1])}}

\* C14: for a response that contains a phrase of the dangerous list, the text
\* validate returns as modified_response no longer contains that phrase and
\* contains the hedged wording the phrase is mapped to; validate returns the
\* same text whenever it is given the same response.
C14_DangerousPhrasesRewritten ==
    ret.op = "validate" =>
        /\ \A phrase \in DangerousIn(ret.response) :
               /\ ~Contains(Lower(ret.result.modified_response), phrase)
               /\ \A hedged \in MappedReplacements(phrase) :
                      Contains(ret.result.modified_response, hedged)
        /\ ret.result.modified_response = validate(ret.response).modified_response


\* The warnings that tag a dangerous claim.
DangerousTags(warnings) ==
    {i \in DOMAIN warnings : SubSeq(warnings[i], 1, Len("dangerous_claim: ")) = "dangerous_claim: "}

EndsWith(text, suffix) ==
    /\ Len(text) >= Len(suffix)
    /\ SubSeq(text, Len(text) - Len(suffix) + 1, Len(text)) = suffix

\* C30: in every result of validate, needs_disclaimer is true exactly when
\* modified_response ends with the disclaimer; a response with the warning
\* contains_financial_advice has the disclaimer at its end.
C30_DisclaimerIffFlagged ==
    ret.op = "validate" =>
        /\ ret.result.needs_disclaimer <=> EndsWith(ret.result.modified_response, Disclaimer)
        /\ (\E i \in DOMAIN ret.result.warnings :
                ret.result.warnings[i] = "contains_financial_advice")
               => EndsWith(ret.result.modified_response, Disclaimer)

=============================================================================
